---- MODULE Spec2Model ----
(***************************************************************************)
(* Verification model of the JavaScript analysers of mcp-browser:          *)
(*   - analyze-js.js : class TaintAnalyzer and its driver main()           *)
(*   - index.ts      : the browser_analyze_javascript_api_endpoints tool   *)
(*   - analyze-js-acorn.cjs (src/unnamed/part_001) : class AcornAnalyzer   *)
(* JavaScript strings are TLA+ strings (Len, \o and SubSeq act on them).   *)
(* JavaScript Sets are insertion-ordered sequences without duplicates.     *)
(***************************************************************************)
EXTENDS Integers, Sequences, FiniteSets, TLC

(***************************************************************************)
(* Bounds of the model.                                                    *)
(***************************************************************************)
MaxFiles == 2
MaxStmts == 1

(***************************************************************************)
(* String helpers: String.prototype.includes / startsWith / toUpperCase.   *)
(***************************************************************************)
includes(s, sub) ==
    \E i \in 0..(Len(s) - Len(sub)) : SubSeq(s, i + 1, i + Len(sub)) = sub

startsWith(s, prefix) ==
    Len(prefix) <= Len(s) /\ SubSeq(s, 1, Len(prefix)) = prefix

LowerCaseLetters == "abcdefghijklmnopqrstuvwxyz"
UpperCaseLetters == "ABCDEFGHIJKLMNOPQRSTUVWXYZ"

\* the upper-case letter of each lower-case letter, and the converse
UpperOf ==
    [c \in {SubSeq(LowerCaseLetters, i, i) : i \in 1..26} |->
        LET i == CHOOSE j \in 1..26 : SubSeq(LowerCaseLetters, j, j) = c
        IN  SubSeq(UpperCaseLetters, i, i)]
LowerOf ==
    [c \in {SubSeq(UpperCaseLetters, i, i) : i \in 1..26} |->
        LET i == CHOOSE j \in 1..26 : SubSeq(UpperCaseLetters, j, j) = c
        IN  SubSeq(LowerCaseLetters, i, i)]

UpperChar(c) == IF c \in DOMAIN UpperOf THEN UpperOf[c] ELSE c

RECURSIVE toUpperCase(_)
toUpperCase(s) ==
    IF Len(s) = 0 THEN ""
    ELSE IF Len(s) = 1 THEN UpperChar(s)
    ELSE toUpperCase(SubSeq(s, 1, Len(s) \div 2))
         \o toUpperCase(SubSeq(s, Len(s) \div 2 + 1, Len(s)))

LowerChar(c) == IF c \in DOMAIN LowerOf THEN LowerOf[c] ELSE c

RECURSIVE toLowerCase(_)
toLowerCase(s) ==
    IF Len(s) = 0 THEN ""
    ELSE IF Len(s) = 1 THEN LowerChar(s)
    ELSE toLowerCase(SubSeq(s, 1, Len(s) \div 2))
         \o toLowerCase(SubSeq(s, Len(s) \div 2 + 1, Len(s)))

Range(seq) == {seq[i] : i \in 1..Len(seq)}

\* Set.prototype.add on an insertion-ordered set
SetAdd(set, x) == IF x \in Range(set) THEN set ELSE Append(set, x)

Max(a, b) == IF a >= b THEN a ELSE b
Min(a, b) == IF a <= b THEN a ELSE b

(***************************************************************************)
(* Babel AST nodes, one record shape per node type the analysers consult.  *)
(***************************************************************************)
Identifier(n) == [type |-> "Identifier", name |-> n]
StringLiteral(v) == [type |-> "StringLiteral", value |-> v]
NullNode == [type |-> "null"]
MemberExpression(o, p) ==
    [type |-> "MemberExpression", object |-> o, property |-> Identifier(p)]
CallExpression(c, a) ==
    [type |-> "CallExpression", callee |-> c, arguments |-> a]
NewExpression(c, a) ==
    [type |-> "NewExpression", callee |-> c, arguments |-> a]
BinaryExpression(op, l, r) ==
    [type |-> "BinaryExpression", operator |-> op, left |-> l, right |-> r]
TemplateLiteral(q, e) ==
    [type |-> "TemplateLiteral", quasis |-> q, expressions |-> e]
AssignmentExpression(l, r) ==
    [type |-> "AssignmentExpression", left |-> l, right |-> r]
VariableDeclarator(id, init) ==
    [type |-> "VariableDeclarator", id |-> id, init |-> init]
ObjectProperty(k, v) ==
    [type |-> "ObjectProperty", key |-> Identifier(k), value |-> v]
ObjectExpression(props) == [type |-> "ObjectExpression", properties |-> props]

isIdentifier(n) == n.type = "Identifier"
isStringLiteral(n) == n.type = "StringLiteral"
isTemplateLiteral(n) == n.type = "TemplateLiteral"
isMemberExpression(n) == n.type = "MemberExpression"
isCallExpression(n) == n.type = "CallExpression"
isNewExpression(n) == n.type = "NewExpression"
isObjectExpression(n) == n.type = "ObjectExpression"
isObjectProperty(n) == n.type = "ObjectProperty"

(***************************************************************************)
(* analyze-js.js : TaintAnalyzer helpers                                   *)
(***************************************************************************)
RECURSIVE getMemberExpressionString(_)
getMemberExpressionString(memberExpr) ==
    IF isIdentifier(memberExpr.object)
    THEN memberExpr.object.name \o "." \o memberExpr.property.name
    ELSE IF isMemberExpression(memberExpr.object)
    THEN getMemberExpressionString(memberExpr.object) \o "."
             \o memberExpr.property.name
    ELSE ""

RECURSIVE extractTemplateLiteralFrom(_, _)
extractTemplateLiteralFrom(templateLiteral, i) ==
    IF i > Len(templateLiteral.quasis) THEN ""
    ELSE templateLiteral.quasis[i]
         \o (IF i <= Len(templateLiteral.expressions)
             THEN LET expr == templateLiteral.expressions[i]
                  IN  IF isIdentifier(expr) THEN "$" \o expr.name
                      ELSE IF isMemberExpression(expr)
                      THEN "$" \o getMemberExpressionString(expr)
                      ELSE ""
             ELSE "")
         \o extractTemplateLiteralFrom(templateLiteral, i + 1)

extractTemplateLiteral(templateLiteral) ==
    extractTemplateLiteralFrom(templateLiteral, 1)

\* isTainted(value): some tainted name is a substring of the value
isTainted(tainted, value) ==
    \E k \in 1..Len(tainted) : includes(value, tainted[k])

isExpressionTainted_catalog(tainted, sources, expr) ==
    IF isIdentifier(expr) THEN expr.name \in Range(tainted)
    ELSE IF isMemberExpression(expr)
    THEN getMemberExpressionString(expr) \in Range(tainted)
         \/ includes(getMemberExpressionString(expr), "location.")
         \/ includes(getMemberExpressionString(expr), "document.")
    ELSE IF isCallExpression(expr) /\ isMemberExpression(expr.callee)
    THEN getMemberExpressionString(expr.callee) \in Range(sources)
    ELSE FALSE

\* isExpressionTainted(expr), reading this.taintedVariables and
\* this.taintSources
isExpressionTainted(tainted, sources, expr) ==
    IF isIdentifier(expr) THEN expr.name \in Range(tainted)
    ELSE IF isMemberExpression(expr)
    THEN getMemberExpressionString(expr) \in Range(tainted)
    ELSE IF isCallExpression(expr) /\ isMemberExpression(expr.callee)
    THEN getMemberExpressionString(expr.callee) \in Range(sources)
    ELSE FALSE

\* getContext(path, lines): the text "Lines <start>-<end>" as its two numbers
getContext(line, lines) ==
    [startLine |-> Max(1, line - lines), endLine |-> line + lines]

(***************************************************************************)
(* analyze-js.js : TaintAnalyzer visitor handlers.  A handler reads and    *)
(* writes the analyser instance (this.taintedVariables, this.taintSources) *)
(* and the per-file analysis object; ctx carries the three of them.        *)
(***************************************************************************)
taintSourcesCatalog ==
    << "location.href", "location.search", "location.hash", "document.URL",
       "document.referrer", "window.name", "document.cookie",
       "localStorage.getItem", "sessionStorage.getItem",
       "URLSearchParams.get", "new URLSearchParams",
       "req.query", "req.params", "req.body", "req.headers" >>

userInputFunctions == << "prompt", "confirm", "alert" >>

NullValue == [null |-> TRUE]

detectTaintSources(ctx, node) ==
    LET c1 == IF isMemberExpression(node.callee)
                 /\ getMemberExpressionString(node.callee)
                        \in Range(taintSourcesCatalog)
              THEN LET source == getMemberExpressionString(node.callee)
                   IN  [ctx EXCEPT
                          !.analysis.taintSources = SetAdd(@, source),
                          !.taintedVariables = SetAdd(@, source)]
              ELSE ctx
    IN  IF isIdentifier(node.callee)
           /\ node.callee.name \in Range(userInputFunctions)
        THEN [c1 EXCEPT !.analysis.taintSources = SetAdd(@, node.callee.name)]
        ELSE c1

extractCallInfo(ctx, node, line) ==
    IF Len(node.arguments) = 0 THEN NullValue
    ELSE LET firstArg == node.arguments[1]
             url == IF isStringLiteral(firstArg) THEN firstArg.value
                    ELSE IF isTemplateLiteral(firstArg)
                    THEN extractTemplateLiteral(firstArg)
                    ELSE IF isIdentifier(firstArg) THEN "$" \o firstArg.name
                    ELSE ""
         IN  [url |-> url,
              isTainted |-> isTainted(ctx.taintedVariables, url),
              context |-> getContext(line, 3)]

riskLevel(ctx, url) ==
    IF isTainted(ctx.taintedVariables, url) THEN "HIGH" ELSE "MEDIUM"

detectNetworkCalls(ctx, node, line) ==
    LET callInfo == extractCallInfo(ctx, node, line)
        c1 == IF isIdentifier(node.callee) /\ node.callee.name = "fetch"
                 /\ callInfo # NullValue
              THEN [ctx EXCEPT
                     !.analysis.networkCalls = Append(@,
                        [type |-> "fetch", url |-> callInfo.url,
                         isTainted |-> callInfo.isTainted,
                         context |-> callInfo.context, line |-> line]),
                     !.analysis.apiEndpoints = Append(@,
                        [method |-> "GET", url |-> callInfo.url,
                         line |-> line,
                         riskLevel |-> riskLevel(ctx, callInfo.url),
                         context |-> getContext(line, 3)])]
              ELSE ctx
        method == IF isMemberExpression(node.callee)
                  THEN getMemberExpressionString(node.callee) ELSE ""
        c2 == IF isMemberExpression(node.callee)
                 /\ (startsWith(method, "axios.") \/ includes(method, ".get")
                     \/ includes(method, ".post"))
                 /\ callInfo # NullValue
              THEN [c1 EXCEPT
                     !.analysis.networkCalls = Append(@,
                        [type |-> "axios", method |-> method,
                         url |-> callInfo.url,
                         isTainted |-> callInfo.isTainted,
                         context |-> callInfo.context, line |-> line])]
              ELSE c1
    IN  IF isNewExpression(node) /\ isIdentifier(node.callee)
           /\ node.callee.name = "XMLHttpRequest"
        THEN [c2 EXCEPT
               !.analysis.networkCalls = Append(@,
                  [type |-> "XMLHttpRequest", line |-> line,
                   context |-> getContext(line, 3)])]
        ELSE c2

\* a variant that clears the taint of a variable assigned an untainted value
trackVariableAssignment_untaint(ctx, node) ==
    IF ~isIdentifier(node.left) THEN ctx
    ELSE IF isExpressionTainted(ctx.taintedVariables, ctx.taintSources,
                                node.right)
    THEN [ctx EXCEPT !.analysis.taintedVariables = SetAdd(@, node.left.name),
                     !.taintedVariables = SetAdd(@, node.left.name)]
    ELSE LET other(n) == n # node.left.name
         IN  [ctx EXCEPT !.analysis.taintedVariables = SelectSeq(@, other),
                         !.taintedVariables = SelectSeq(@, other)]

trackVariableAssignment(ctx, node) ==
    IF isIdentifier(node.left)
       /\ isExpressionTainted(ctx.taintedVariables, ctx.taintSources,
                              node.right)
    THEN [ctx EXCEPT !.analysis.taintedVariables = SetAdd(@, node.left.name),
                     !.taintedVariables = SetAdd(@, node.left.name)]
    ELSE ctx

trackVariableDeclaration(ctx, node) ==
    IF isIdentifier(node.id) /\ node.init # NullNode
       /\ isExpressionTainted(ctx.taintedVariables, ctx.taintSources,
                              node.init)
    THEN [ctx EXCEPT !.analysis.taintedVariables = SetAdd(@, node.id.name),
                     !.taintedVariables = SetAdd(@, node.id.name)]
    ELSE ctx

detectDangerousPatterns_anyOperator(ctx, node, line) ==
    IF isExpressionTainted(ctx.taintedVariables, ctx.taintSources, node.left)
       \/ isExpressionTainted(ctx.taintedVariables, ctx.taintSources,
                              node.right)
    THEN [ctx EXCEPT !.analysis.dangerousPatterns = Append(@,
             [type |-> "string_concat", line |-> line,
              context |-> getContext(line, 2)])]
    ELSE ctx

detectDangerousPatterns(ctx, node, line) ==
    IF node.operator = "+"
       /\ (isExpressionTainted(ctx.taintedVariables, ctx.taintSources,
                               node.left)
           \/ isExpressionTainted(ctx.taintedVariables, ctx.taintSources,
                                  node.right))
    THEN [ctx EXCEPT !.analysis.dangerousPatterns = Append(@,
             [type |-> "string_concat", line |-> line,
              context |-> getContext(line, 2)])]
    ELSE ctx

RECURSIVE detectTemplateLiteralInjection_noBreak(_, _, _)
detectTemplateLiteralInjection_noBreak(ctx, node, line) ==
    IF Len(node.expressions) = 0 THEN ctx
    ELSE LET rest ==
                 detectTemplateLiteralInjection_noBreak(
                     ctx, [node EXCEPT !.expressions = Tail(@)], line)
         IN IF isExpressionTainted(ctx.taintedVariables, ctx.taintSources,
                                   Head(node.expressions))
            THEN [rest EXCEPT !.analysis.dangerousPatterns = Append(@,
                     [type |-> "template_literal_injection", line |-> line,
                      context |-> getContext(line, 2)])]
            ELSE rest

detectTemplateLiteralInjection(ctx, node, line) ==
    IF \E i \in 1..Len(node.expressions) :
          isExpressionTainted(ctx.taintedVariables, ctx.taintSources,
                              node.expressions[i])
    THEN [ctx EXCEPT !.analysis.dangerousPatterns = Append(@,
             [type |-> "template_literal_injection", line |-> line,
              context |-> getContext(line, 2)])]
    ELSE ctx

(***************************************************************************)
(* traverse(ast, visitors): depth-first, parents before children, children *)
(* in Babel's visitor-key order; only the five node types with a           *)
(* registered visitor are listed.                                          *)
(***************************************************************************)
RECURSIVE VisitOrder(_)
RECURSIVE VisitOrderAll(_)
VisitOrderAll(nodes) ==
    IF Len(nodes) = 0 THEN <<>>
    ELSE VisitOrder(Head(nodes)) \o VisitOrderAll(Tail(nodes))

VisitOrder(node) ==
    CASE node.type = "VariableDeclarator" ->
            <<node>> \o VisitOrder(node.id) \o VisitOrder(node.init)
      [] node.type = "AssignmentExpression" ->
            <<node>> \o VisitOrder(node.left) \o VisitOrder(node.right)
      [] node.type = "CallExpression" ->
            <<node>> \o VisitOrder(node.callee) \o VisitOrderAll(node.arguments)
      [] node.type = "NewExpression" ->
            VisitOrder(node.callee) \o VisitOrderAll(node.arguments)
      [] node.type = "BinaryExpression" ->
            <<node>> \o VisitOrder(node.left) \o VisitOrder(node.right)
      [] node.type = "TemplateLiteral" ->
            <<node>> \o VisitOrderAll(node.expressions)
      [] node.type = "MemberExpression" -> VisitOrder(node.object)
      [] node.type = "ObjectExpression" ->
            VisitOrderAll([k \in 1..Len(node.properties) |->
                              node.properties[k].value])
      [] OTHER -> <<>>

\* the visits of a whole program: statement i is on source line i
RECURSIVE Visits(_, _)
Visits(program, i) ==
    IF i > Len(program) THEN <<>>
    ELSE [k \in 1..Len(VisitOrder(program[i])) |->
             [node |-> VisitOrder(program[i])[k], line |-> i]]
         \o Visits(program, i + 1)

\* the visitor registered for a node, applied to it
Visit(ctx, node, line) ==
    CASE node.type = "CallExpression" ->
            detectNetworkCalls(detectTaintSources(ctx, node), node, line)
      [] node.type = "AssignmentExpression" ->
            trackVariableAssignment(ctx, node)
      [] node.type = "VariableDeclarator" ->
            trackVariableDeclaration(ctx, node)
      [] node.type = "BinaryExpression" ->
            detectDangerousPatterns(ctx, node, line)
      [] node.type = "TemplateLiteral" ->
            detectTemplateLiteralInjection(ctx, node, line)

newAnalysis(filePath) ==
    [file |-> filePath, taintedVariables |-> <<>>, networkCalls |-> <<>>,
     apiEndpoints |-> <<>>, dangerousPatterns |-> <<>>, taintSources |-> <<>>]

(***************************************************************************)
(* Inputs: the statements a source file is made of, one per line.          *)
(***************************************************************************)
localStorageGetItem ==
    MemberExpression(Identifier("localStorage"), "getItem")

Stmts ==
    { \* localStorage.getItem("k");
      CallExpression(localStorageGetItem, <<StringLiteral("k")>>),
      \* let x = localStorage.getItem("k");
      VariableDeclarator(Identifier("x"),
          CallExpression(localStorageGetItem, <<StringLiteral("k")>>)),
      \* const q = location.search;
      VariableDeclarator(Identifier("q"),
          MemberExpression(Identifier("location"), "search")),
      \* g = localStorage.getItem;
      AssignmentExpression(Identifier("g"), localStorageGetItem),
      \* g = "a";
      AssignmentExpression(Identifier("g"), StringLiteral("a")),
      \* fetch("/g");
      CallExpression(Identifier("fetch"), <<StringLiteral("/g")>>),
      \* fetch("/s" + g);
      CallExpression(Identifier("fetch"),
          <<BinaryExpression("+", StringLiteral("/s"), Identifier("g"))>>),
      \* fetch(`/u/${g}`);
      CallExpression(Identifier("fetch"),
          <<TemplateLiteral(<<"/u/", "">>, <<Identifier("g")>>)>>),
      \* axios.get("/a");
      CallExpression(MemberExpression(Identifier("axios"), "get"),
                     <<StringLiteral("/a")>>)
    }

RECURSIVE SeqsUpTo(_, _)
SeqsUpTo(S, n) ==
    IF n = 0 THEN {<<>>}
    ELSE LET shorter == SeqsUpTo(S, n - 1)
         IN  shorter \cup {Append(p, x) : p \in shorter, x \in S}

\* longer programs: the sources are registered by a call, copied into g,
\* g is reassigned a literal and then read by fetch
TaintedRead(read) ==
    << CallExpression(localStorageGetItem, <<StringLiteral("k")>>),
       AssignmentExpression(Identifier("g"), localStorageGetItem),
       AssignmentExpression(Identifier("g"), StringLiteral("a")),
       CallExpression(Identifier("fetch"), <<read>>) >>

\* g is tainted as above; x is read by fetch, assigned g, and read again
Propagation(x) ==
    << CallExpression(localStorageGetItem, <<StringLiteral("k")>>),
       AssignmentExpression(Identifier("g"), localStorageGetItem),
       CallExpression(Identifier("fetch"), <<Identifier(x)>>),
       AssignmentExpression(Identifier(x), Identifier("g")),
       CallExpression(Identifier("fetch"), <<Identifier(x)>>) >>

\* g is tainted as above and copied by `let y = g`; then
\*   fetch(y + "/s");  g == "a";  "/s" - y;  fetch(`/u/${y}/${g}`);
\*   fetch(`/u/${h}`);  "/s" + h;
ReadsAfterLet ==
    << CallExpression(localStorageGetItem, <<StringLiteral("k")>>),
       AssignmentExpression(Identifier("g"), localStorageGetItem),
       VariableDeclarator(Identifier("y"), Identifier("g")),
       CallExpression(Identifier("fetch"),
           <<BinaryExpression("+", Identifier("y"), StringLiteral("/s"))>>),
       BinaryExpression("==", Identifier("g"), StringLiteral("a")),
       BinaryExpression("-", StringLiteral("/s"), Identifier("y")),
       CallExpression(Identifier("fetch"),
           <<TemplateLiteral(<<"/u/", "/", "">>,
                             <<Identifier("y"), Identifier("g")>>)>>),
       CallExpression(Identifier("fetch"),
           <<TemplateLiteral(<<"/u/", "">>, <<Identifier("h")>>)>>),
       BinaryExpression("+", StringLiteral("/s"), Identifier("h")) >>

Scenarios ==
    { \* fetch("https://api.example.com/users");
      << CallExpression(Identifier("fetch"),
             <<StringLiteral("https://api.example.com/users")>>) >>,
      \* const q = location.search; fetch("/search?q=" + q);
      << VariableDeclarator(Identifier("q"),
             MemberExpression(Identifier("location"), "search")),
         CallExpression(Identifier("fetch"),
             <<BinaryExpression("+", StringLiteral("/search?q="),
                                Identifier("q"))>>) >>,
      TaintedRead(BinaryExpression("+", StringLiteral("/s"), Identifier("g"))),
      TaintedRead(TemplateLiteral(<<"/u/", "">>, <<Identifier("g")>>)),
      TaintedRead(StringLiteral("/g")),
      Propagation("x"),
      Propagation("gx"),
      ReadsAfterLet
    }

\* what fs.readFile can return: a program of up to MaxStmts statements or
\* one of the scenarios, or text that @babel/parser rejects
Programs == SeqsUpTo(Stmts, MaxStmts) \cup Scenarios
Contents ==
    {[parses |-> TRUE, program |-> p] : p \in Programs}
    \cup {[parses |-> FALSE, program |-> <<>>]}
NoContent == [parses |-> FALSE, program |-> <<>>]

(***************************************************************************)
(* State: the TaintAnalyzer instance, the locals of main() and its loop.   *)
(***************************************************************************)
VARIABLES
    taintedVariables,   \* this.taintedVariables
    taintSources,       \* this.taintSources
    astErrors,          \* this.astErrors
    results,            \* main(): results
    totalFiles,         \* main(): jsFiles.length; jsFiles[i] is the path i
    fileIdx,            \* main(): number of files the loop has finished
    content,            \* main(): content of the file being analysed
    analysis,           \* analyzeFile(): analysis of the file being analysed
    pending,            \* traverse(): visits still to make in this file
    pc,                 \* "loop", "traverse" or "done"
    outcomes            \* per finished file: "ok", "parseError", "ioError"

\* index.ts : the locals of analyzeJavaScriptAPIEndpoints and of its loop
VARIABLES
    settings,           \* the options of the tool call, defaults applied
    analysisResults,    \* analysisResults
    jsFilesLength,      \* jsFiles.length; jsFiles[i] has relative path i
    processed,          \* per file the loop has finished: outcome and content
    toolPc              \* "idle", "loop" or "done"

\* analyze-js-acorn.cjs : the locals of main() and of its loop
VARIABLES
    acornResults,       \* results
    acornTotalFiles,    \* jsFiles.length; jsFiles[i] is the path i
    acornProcessed,     \* per file the loop has finished: outcome and content
    acornPc             \* "idle", "loop" or "done"

analyzerVars ==
    << taintedVariables, taintSources, astErrors, results, totalFiles,
       fileIdx, content, analysis, pending, pc, outcomes >>
serverVars == << settings, analysisResults, jsFilesLength, processed, toolPc >>
\* two runs of an analyser over one list of files
VARIABLES
    runInput,           \* which analyser is run, and the files it is given
    runs                \* per run: its analyser instance, results, progress

\* the browser server of index.ts: its session map and what Playwright holds
VARIABLES
    sessions,           \* MCPBrowserServer.sessions: id -> BrowserSession,
                        \* each with the state of its context and its page
    browsers,           \* every browser launched so far, open or closed
    created,            \* how many context and page pairs were created
    logStreams,         \* every file handle opened by logNetworkRequests
    inflight,           \* tool calls suspended at an await
    response,           \* the result being handed to the transport, with
                        \* the request it answers
    running             \* FALSE once SIGINT has been handled

acornVars == << acornResults, acornTotalFiles, acornProcessed, acornPc >>
runVars == << runInput, runs >>
sessionVars ==
    << sessions, browsers, created, logStreams, inflight, response,
       running >>
vars == << analyzerVars, serverVars, acornVars, runVars, sessionVars >>

newAnalysisResults(opts, n) ==
    [settings |-> opts,
     summary |-> [totalFiles |-> n, processedFiles |-> 0, networkCalls |-> 0,
                  apiEndpoints |-> 0, requestSpecs |-> 0],
     files |-> <<>>, networkCalls |-> <<>>, apiEndpoints |-> <<>>,
     requestSpecs |-> <<>>]

defaultSettings ==
    [detectNetworkCalls |-> TRUE, extractMetadata |-> TRUE,
     generateRequestSpecs |-> TRUE, validateEndpoints |-> FALSE,
     contextLines |-> 30]

\* the tool is not running
ServerIdle ==
    /\ settings = defaultSettings
    /\ analysisResults = newAnalysisResults(defaultSettings, 0)
    /\ jsFilesLength = 0
    /\ processed = <<>>
    /\ toolPc = "idle"

newResults(n) ==
    [summary |-> [totalFiles |-> n, analyzedFiles |-> 0, astErrors |-> 0,
                  totalNetworkCalls |-> 0, totalApiEndpoints |-> 0,
                  totalDangerousPatterns |-> 0, totalTaintSources |-> 0],
     files |-> <<>>, networkCalls |-> <<>>, apiEndpoints |-> <<>>,
     dangerousPatterns |-> <<>>, taintSources |-> <<>>, astErrors |-> <<>>]

newAcornResults(n) ==
    [summary |-> [totalFiles |-> n, analyzedFiles |-> 0,
                  totalNetworkCalls |-> 0, totalApiEndpoints |-> 0,
                  totalDangerousPatterns |-> 0, totalTaintSources |-> 0],
     files |-> <<>>, networkCalls |-> <<>>, apiEndpoints |-> <<>>,
     dangerousPatterns |-> <<>>, taintSources |-> <<>>]

\* the Acorn script is not running
AcornIdle ==
    /\ acornResults = newAcornResults(0)
    /\ acornTotalFiles = 0
    /\ acornProcessed = <<>>
    /\ acornPc = "idle"

\* no pair of runs has been started
RunsIdle ==
    /\ runInput = [kind |-> "idle", files |-> <<>>]
    /\ runs = <<>>

\* what a handler returns before any call was made
NoResponse == [none |-> TRUE]

\* the browser server right after construction: an empty session map
SessionsIdle ==
    /\ sessions = << >>
    /\ browsers = << >>
    /\ created = 0
    /\ logStreams = << >>
    /\ inflight = {}
    /\ response = NoResponse
    /\ running = TRUE

Init ==
    /\ taintedVariables = <<>>
    /\ taintSources = <<>>
    /\ astErrors = <<>>
    /\ totalFiles \in 0..MaxFiles
    /\ results = newResults(totalFiles)
    /\ fileIdx = 0
    /\ content = NoContent
    /\ analysis = NullValue
    /\ pending = <<>>
    /\ pc = "loop"
    /\ outcomes = <<>>
    /\ ServerIdle
    /\ AcornIdle
    /\ RunsIdle
    /\ SessionsIdle

ctxNow ==
    [taintedVariables |-> taintedVariables, taintSources |-> taintSources,
     analysis |-> analysis]

\* a variant of the catch block that only warns
recordAstError_warnOnly(errors, filePath) == errors

\* analyzeFile's catch block: one astErrors entry for the file
recordAstError(errors, filePath) ==
    Append(errors, [file |-> filePath, error |-> "SyntaxError"])

\* fs.readFile throws: main's catch only warns
ReadFileError ==
    /\ pc = "loop" /\ fileIdx < totalFiles
    /\ fileIdx' = fileIdx + 1
    /\ outcomes' = Append(outcomes, "ioError")
    /\ UNCHANGED << taintedVariables, taintSources, astErrors, results,
                    totalFiles, content, analysis, pending, pc >>
    /\ UNCHANGED << serverVars, acornVars, runVars, sessionVars >>

\* analyzeFile: parse() throws, the file is recorded and null is returned,
\* so main skips the aggregation
AnalyzeFileParseError ==
    /\ pc = "loop" /\ fileIdx < totalFiles
    /\ astErrors' = recordAstError(astErrors, fileIdx + 1)
    /\ fileIdx' = fileIdx + 1
    /\ outcomes' = Append(outcomes, "parseError")
    /\ UNCHANGED << taintedVariables, taintSources, results, totalFiles,
                    content, analysis, pending, pc >>
    /\ UNCHANGED << serverVars, acornVars, runVars, sessionVars >>

\* analyzeFile: parse() succeeds, a new analysis object, traversal starts
AnalyzeFileParsed ==
    /\ pc = "loop" /\ fileIdx < totalFiles
    /\ \E c \in Contents :
          /\ c.parses
          /\ content' = c
          /\ pending' = Visits(c.program, 1)
    /\ analysis' = newAnalysis(fileIdx + 1)
    /\ pc' = "traverse"
    /\ UNCHANGED << taintedVariables, taintSources, astErrors, results,
                    totalFiles, fileIdx, outcomes >>
    /\ UNCHANGED << serverVars, acornVars, runVars, sessionVars >>

\* one visitor call; the handler's writes go to the instance and analysis
VisitWith(type, r) ==
    /\ pc = "traverse" /\ pending # <<>>
    /\ Head(pending).node.type = type
    /\ taintedVariables' = r.taintedVariables
    /\ taintSources' = r.taintSources
    /\ analysis' = r.analysis
    /\ pending' = Tail(pending)
    /\ UNCHANGED << astErrors, results, totalFiles, fileIdx, content, pc,
                    outcomes >>
    /\ UNCHANGED << serverVars, acornVars, runVars, sessionVars >>

VisitCallExpression ==
    /\ pending # <<>>
    /\ VisitWith("CallExpression",
          detectNetworkCalls(detectTaintSources(ctxNow, Head(pending).node),
                             Head(pending).node, Head(pending).line))

VisitAssignmentExpression ==
    /\ pending # <<>>
    /\ VisitWith("AssignmentExpression",
          trackVariableAssignment(ctxNow, Head(pending).node))

VisitVariableDeclarator ==
    /\ pending # <<>>
    /\ VisitWith("VariableDeclarator",
          trackVariableDeclaration(ctxNow, Head(pending).node))

VisitBinaryExpression ==
    /\ pending # <<>>
    /\ VisitWith("BinaryExpression",
          detectDangerousPatterns(ctxNow, Head(pending).node,
                                  Head(pending).line))

VisitTemplateLiteral ==
    /\ pending # <<>>
    /\ VisitWith("TemplateLiteral",
          detectTemplateLiteralInjection(ctxNow, Head(pending).node,
                                         Head(pending).line))

RECURSIVE pushTaintSources(_, _)
pushTaintSources(list, sources) ==
    IF Len(sources) = 0 THEN list
    ELSE pushTaintSources(SetAdd(list, Head(sources)), Tail(sources))

\* main's `if (analysis)` block
aggregate(res, a) ==
    [res EXCEPT !.files = Append(@, a),
                !.summary.analyzedFiles = @ + 1,
                !.networkCalls = @ \o a.networkCalls,
                !.apiEndpoints = @ \o a.apiEndpoints,
                !.dangerousPatterns = @ \o a.dangerousPatterns,
                !.taintSources = pushTaintSources(@, a.taintSources)]

\* analyzeFile returns the analysis and main folds it into the results
Aggregate ==
    /\ pc = "traverse" /\ pending = <<>>
    /\ results' = aggregate(results, analysis)
    /\ fileIdx' = fileIdx + 1
    /\ outcomes' = Append(outcomes, "ok")
    /\ content' = NoContent
    /\ analysis' = NullValue
    /\ pc' = "loop"
    /\ UNCHANGED << taintedVariables, taintSources, astErrors, totalFiles,
                    pending >>
    /\ UNCHANGED << serverVars, acornVars, runVars, sessionVars >>

\* after the loop: the error list and the summary counts
finalize(res, errors) ==
    [res EXCEPT !.astErrors = errors,
                !.summary.astErrors = Len(errors),
                !.summary.totalNetworkCalls = Len(res.networkCalls),
                !.summary.totalApiEndpoints = Len(res.apiEndpoints),
                !.summary.totalDangerousPatterns = Len(res.dangerousPatterns),
                !.summary.totalTaintSources = Len(res.taintSources)]

Finish ==
    /\ pc = "loop" /\ fileIdx = totalFiles
    /\ results' = finalize(results, astErrors)
    /\ pc' = "done"
    /\ UNCHANGED << taintedVariables, taintSources, astErrors, totalFiles,
                    fileIdx, content, analysis, pending, outcomes >>
    /\ UNCHANGED << serverVars, acornVars, runVars, sessionVars >>

Next ==
    \/ ReadFileError
    \/ AnalyzeFileParseError
    \/ AnalyzeFileParsed
    \/ VisitCallExpression
    \/ VisitAssignmentExpression
    \/ VisitVariableDeclarator
    \/ VisitBinaryExpression
    \/ VisitTemplateLiteral
    \/ Aggregate
    \/ Finish

Spec == Init /\ [][Next]_vars

(***************************************************************************)
(* index.ts : expression reconstruction.  A reconstructed object maps its  *)
(* keys to JavaScript values, each tagged with its runtime type.           *)
(***************************************************************************)
jsString(str) == [t |-> "string", v |-> str]
jsObject(obj) == [t |-> "object", v |-> obj]
jsNull == [t |-> "null"]
emptyObject == <<>>

hasKey(obj, key) == key \in DOMAIN obj
\* JavaScript truthiness of a reconstructed value
truthy(value) == value.t = "object" \/ (value.t = "string" /\ value.v # "")

RECURSIVE extractExpression(_)
RECURSIVE mcp_extractTemplateLiteralFrom(_, _)
mcp_extractTemplateLiteralFrom(node, i) ==
    IF i > Len(node.quasis) THEN ""
    ELSE node.quasis[i]
         \o (IF i <= Len(node.expressions)
             THEN "${" \o extractExpression(node.expressions[i]) \o "}"
             ELSE "")
         \o mcp_extractTemplateLiteralFrom(node, i + 1)

mcp_extractTemplateLiteral(node) == mcp_extractTemplateLiteralFrom(node, 1)

extractExpression(node) ==
    IF isIdentifier(node) THEN node.name
    ELSE IF isStringLiteral(node) THEN "\"" \o node.value \o "\""
    ELSE IF isTemplateLiteral(node) THEN mcp_extractTemplateLiteral(node)
    ELSE "..."

setKey(obj, key, value) == (key :> value) @@ obj

RECURSIVE extractObjectExpression(_)
RECURSIVE extractProperties(_, _)
extractProperties(obj, props) ==
    IF Len(props) = 0 THEN obj
    ELSE LET prop == Head(props)
             next ==
                IF isObjectProperty(prop) /\ isIdentifier(prop.key)
                THEN IF isStringLiteral(prop.value)
                     THEN setKey(obj, prop.key.name,
                                 jsString(prop.value.value))
                     ELSE IF isIdentifier(prop.value)
                     THEN setKey(obj, prop.key.name,
                                 jsString("$" \o prop.value.name))
                     ELSE IF isObjectExpression(prop.value)
                     THEN setKey(obj, prop.key.name,
                             jsObject(extractObjectExpression(prop.value)))
                     ELSE obj
                ELSE obj
         IN  extractProperties(next, Tail(props))

extractObjectExpression(node) == extractProperties(emptyObject, node.properties)

\* lines.slice(from, to + 1).join('\n'), from and to 0-based
RECURSIVE joinLines(_, _, _)
joinLines(lines, from, to) ==
    IF from > to THEN ""
    ELSE IF from = to THEN lines[from + 1]
    ELSE lines[from + 1] \o "\n" \o joinLines(lines, from + 1, to)

extractArgument(arg) ==
    IF isStringLiteral(arg) THEN [type |-> "string", value |-> arg.value]
    ELSE IF isTemplateLiteral(arg)
    THEN [type |-> "template", value |-> mcp_extractTemplateLiteral(arg)]
    ELSE IF isIdentifier(arg) THEN [type |-> "identifier", value |-> arg.name]
    ELSE IF isObjectExpression(arg)
    THEN [type |-> "object", value |-> extractObjectExpression(arg)]
    ELSE [type |-> "unknown", value |-> "..."]

\* a variant that reports the window by its 0-based slice indices
mcp_extractCallInfo_zeroBased(type, method, filePath, node, loc, lines, contextLines, callType) ==
    LET startLine == loc.start.line - 1
        endLine == loc.end.line - 1
        contextStart == Max(0, startLine - contextLines)
        contextEnd == Min(Len(lines) - 1, endLine + contextLines)
        info == [type |-> type, file |-> filePath,
                 line |-> startLine + 1, column |-> loc.start.column,
                 callType |-> callType,
                 arguments |-> [k \in 1..Len(node.arguments) |->
                                   extractArgument(node.arguments[k])],
                 context |-> joinLines(lines, contextStart, contextEnd),
                 contextStart |-> contextStart,
                 contextEnd |-> contextEnd]
    IN  IF type = "axios" THEN [method |-> method] @@ info ELSE info

\* extractCallInfo of index.ts, the fields `type`, `file` (and `method` for
\* axios) of the pushed call included
mcp_extractCallInfo(type, method, filePath, node, loc, lines, contextLines, callType) ==
    LET startLine == loc.start.line - 1
        endLine == loc.end.line - 1
        contextStart == Max(0, startLine - contextLines)
        contextEnd == Min(Len(lines) - 1, endLine + contextLines)
        info == [type |-> type, file |-> filePath,
                 line |-> startLine + 1, column |-> loc.start.column,
                 callType |-> callType,
                 arguments |-> [k \in 1..Len(node.arguments) |->
                                   extractArgument(node.arguments[k])],
                 context |-> joinLines(lines, contextStart, contextEnd),
                 contextStart |-> contextStart + 1,
                 contextEnd |-> contextEnd + 1]
    IN  IF type = "axios" THEN [method |-> method] @@ info ELSE info

axiosMethods == << "get", "post", "put", "delete", "patch", "head", "options" >>

\* the CallExpression visitor of detectNetworkCalls, for one node
mcp_visitCallExpression(node, loc, lines, filePath, contextLines) ==
    LET fetchCalls ==
           IF isIdentifier(node.callee) /\ node.callee.name = "fetch"
           THEN << mcp_extractCallInfo("fetch", "", filePath, node, loc,
                                       lines, contextLines, "fetch") >>
           ELSE <<>>
        axiosCalls ==
           IF /\ isMemberExpression(node.callee)
              /\ isIdentifier(node.callee.object)
              /\ node.callee.object.name = "axios"
              /\ isIdentifier(node.callee.property)
              /\ node.callee.property.name \in Range(axiosMethods)
           THEN << mcp_extractCallInfo("axios", node.callee.property.name,
                      filePath, node, loc, lines, contextLines,
                      "axios." \o node.callee.property.name) >>
           ELSE <<>>
        xhrCalls ==
           IF /\ isNewExpression(node) /\ isIdentifier(node.callee)
              /\ node.callee.name = "XMLHttpRequest"
           THEN << mcp_extractCallInfo("XMLHttpRequest", "", filePath, node,
                      loc, lines, contextLines, "XMLHttpRequest") >>
           ELSE <<>>
        wsCalls ==
           IF /\ isNewExpression(node) /\ isIdentifier(node.callee)
              /\ node.callee.name = "WebSocket"
           THEN << mcp_extractCallInfo("WebSocket", "", filePath, node, loc,
                      lines, contextLines, "WebSocket") >>
           ELSE <<>>
    IN  fetchCalls \o axiosCalls \o xhrCalls \o wsCalls

(***************************************************************************)
(* index.ts : a source file is a list of statements, each with the lines   *)
(* of text it occupies; parse() gives every node its loc.                  *)
(***************************************************************************)
RECURSIVE linesOf(_)
linesOf(items) ==
    IF Len(items) = 0 THEN <<>>
    ELSE Head(items).lines \o linesOf(Tail(items))

\* the CallExpression nodes of the file in traversal order, with their loc
RECURSIVE callVisits(_, _)
callVisits(items, firstLine) ==
    IF Len(items) = 0 THEN <<>>
    ELSE LET item == Head(items)
             loc == [start |-> [line |-> firstLine, column |-> 0],
                     end |-> [line |-> firstLine + Len(item.lines) - 1]]
             nodes == SelectSeq(VisitOrder(item.node), isCallExpression)
         IN  [k \in 1..Len(nodes) |-> [node |-> nodes[k], loc |-> loc]]
             \o callVisits(Tail(items), firstLine + Len(item.lines))

RECURSIVE FlattenCalls(_)
FlattenCalls(lists) ==
    IF Len(lists) = 0 THEN <<>>
    ELSE Head(lists) \o FlattenCalls(Tail(lists))

mcp_detectNetworkCalls(items, filePath, contextLines) ==
    LET visits == callVisits(items, 1)
    IN  FlattenCalls([k \in 1..Len(visits) |->
           mcp_visitCallExpression(visits[k].node, visits[k].loc,
                                   linesOf(items), filePath, contextLines)])

(***************************************************************************)
(* index.ts : metadata inference                                           *)
(***************************************************************************)
\* the options value whose method is read by inferMethod for a fetch call
hasMethodOption(call) ==
    /\ call.type = "fetch" /\ Len(call.arguments) >= 2
    /\ call.arguments[2].type = "object"
    /\ hasKey(call.arguments[2].value, "method")
    /\ truthy(call.arguments[2].value.method)

\* inferMethod throws a TypeError: toUpperCase is called on a method value
\* that is not a string
inferMethodThrows(call) ==
    hasMethodOption(call) /\ call.arguments[2].value.method.t # "string"

inferMethod(call) ==
    IF call.type = "axios" /\ call.method # ""
    THEN toUpperCase(call.method)
    ELSE IF hasMethodOption(call)
    THEN toUpperCase(call.arguments[2].value.method.v)
    ELSE "GET"

inferUrl(call) ==
    IF Len(call.arguments) >= 1
       /\ call.arguments[1].type \in {"string", "template"}
    THEN call.arguments[1].value
    ELSE "${URL}"

inferHeaders(call) ==
    IF /\ Len(call.arguments) >= 2 /\ call.arguments[2].type = "object"
       /\ hasKey(call.arguments[2].value, "headers")
       /\ truthy(call.arguments[2].value.headers)
    THEN call.arguments[2].value.headers
    ELSE jsObject(emptyObject)

inferBody(call) ==
    IF /\ Len(call.arguments) >= 2 /\ call.arguments[2].type = "object"
       /\ hasKey(call.arguments[2].value, "body")
       /\ truthy(call.arguments[2].value.body)
    THEN call.arguments[2].value.body
    ELSE jsNull

\* a variant that looks for the basic scheme first
inferAuth_basicFirst(call) ==
    LET context == toLowerCase(call.context)
    IN  IF includes(context, "basic")
        THEN [type |-> "basic", credentials |-> "${CREDENTIALS}"]
        ELSE IF includes(context, "bearer") \/ includes(context, "token")
        THEN [type |-> "bearer", token |-> "${TOKEN}"]
        ELSE jsNull

inferAuth(call) ==
    LET context == toLowerCase(call.context)
    IN  IF includes(context, "bearer") \/ includes(context, "token")
        THEN [type |-> "bearer", token |-> "${TOKEN}"]
        ELSE IF includes(context, "basic")
        THEN [type |-> "basic", credentials |-> "${CREDENTIALS}"]
        ELSE jsNull

extractNetworkCallMetadataThrows(networkCalls) ==
    \E k \in 1..Len(networkCalls) : inferMethodThrows(networkCalls[k])

extractNetworkCallMetadata(networkCalls) ==
    [k \in 1..Len(networkCalls) |->
        [metadata |-> [method |-> inferMethod(networkCalls[k]),
                       url |-> inferUrl(networkCalls[k]),
                       headers |-> inferHeaders(networkCalls[k]),
                       body |-> inferBody(networkCalls[k]),
                       auth |-> inferAuth(networkCalls[k])]]
        @@ networkCalls[k]]

\* the generated id and the timestamp of a spec are left out: nothing reads
\* them
generateRequestSpecs(metadata) ==
    [k \in 1..Len(metadata) |->
        [method |-> metadata[k].metadata.method,
         url |-> metadata[k].metadata.url,
         headers |-> metadata[k].metadata.headers,
         body |-> metadata[k].metadata.body,
         auth |-> metadata[k].metadata.auth,
         source |-> [file |-> metadata[k].file, line |-> metadata[k].line,
                     callType |-> metadata[k].callType]]]

validateEndpoints(requestSpecs) ==
    [k \in 1..Len(requestSpecs) |->
        [validation |-> [attempted |-> TRUE, success |-> FALSE,
                         reason |-> "Validation not implemented yet"]]
        @@ requestSpecs[k]]

(***************************************************************************)
(* index.ts : inputs.  The text is the normalised content, after the       *)
(* prettifier (an external formatter) has run.                             *)
(***************************************************************************)
Statement(lines, node) == [lines |-> lines, node |-> node]

fetchLiteral ==
    Statement(<<"fetch('/a');">>,
        CallExpression(Identifier("fetch"), <<StringLiteral("/a")>>))

fetchIdentifiers ==
    Statement(<<"fetch(u, opts); // Bearer">>,
        CallExpression(Identifier("fetch"),
            <<Identifier("u"), Identifier("opts")>>))

fetchWithOptions ==
    Statement(<<"fetch('/a', {",
                "  method: 'post', headers: {Accept: 'json'}, body: b });">>,
        CallExpression(Identifier("fetch"),
            <<StringLiteral("/a"),
              ObjectExpression(
                <<ObjectProperty("method", StringLiteral("post")),
                  ObjectProperty("headers", ObjectExpression(
                     <<ObjectProperty("Accept", StringLiteral("json"))>>)),
                  ObjectProperty("body", Identifier("b"))>>)>>))

fetchMethodIdentifier ==
    Statement(<<"fetch('/a', {method: m}); // Basic">>,
        CallExpression(Identifier("fetch"),
            <<StringLiteral("/a"),
              ObjectExpression(
                <<ObjectProperty("method", Identifier("m"))>>)>>))

fetchMethodObject ==
    Statement(<<"fetch('/a', {method: {name: 'post'}});">>,
        CallExpression(Identifier("fetch"),
            <<StringLiteral("/a"),
              ObjectExpression(
                <<ObjectProperty("method", ObjectExpression(
                     <<ObjectProperty("name", StringLiteral("post"))>>))
                >>)>>))

axiosPostLogin ==
    Statement(<<"axios.post('/login', {user, pass});">>,
        CallExpression(MemberExpression(Identifier("axios"), "post"),
            <<StringLiteral("/login"),
              ObjectExpression(
                <<ObjectProperty("user", Identifier("user")),
                  ObjectProperty("pass", Identifier("pass"))>>)>>))

\* a template literal URL; its backquotes are written ' in the text
axiosGetTemplate ==
    Statement(<<"axios.get('/u/${id}');">>,
        CallExpression(MemberExpression(Identifier("axios"), "get"),
            <<TemplateLiteral(<<"/u/", "">>, <<Identifier("id")>>)>>))

\* fetch with no argument at all
fetchNoArguments ==
    Statement(<<"fetch();">>, CallExpression(Identifier("fetch"), <<>>))

\* a URL that is neither a literal, a template nor an identifier
fetchConcatenation ==
    Statement(<<"fetch('/s?token=' + t);">>,
        CallExpression(Identifier("fetch"),
            <<BinaryExpression("+", StringLiteral("/s?token="),
                               Identifier("t"))>>))

serverNewXMLHttpRequest ==
    Statement(<<"new XMLHttpRequest();">>,
        NewExpression(Identifier("XMLHttpRequest"), <<>>))

serverNewWebSocket ==
    Statement(<<"new WebSocket('wss://h/s');">>,
        NewExpression(Identifier("WebSocket"), <<StringLiteral("wss://h/s")>>))

\* a line without code, such as the empty last element that
\* content.split('\n') gives for text ending in a newline
blankLine == Statement(<<"">>, NullNode)

ServerStmts ==
    { fetchLiteral, fetchIdentifiers, fetchWithOptions, fetchMethodIdentifier,
      fetchMethodObject, axiosPostLogin, axiosGetTemplate, fetchNoArguments,
      fetchConcatenation, serverNewXMLHttpRequest, serverNewWebSocket }

\* files with several calls
ServerScenarios ==
    { << fetchLiteral, fetchIdentifiers >>,
      << axiosPostLogin, fetchMethodObject >>,
      << fetchWithOptions, axiosPostLogin, axiosGetTemplate >>,
      << fetchIdentifiers, fetchMethodIdentifier >>,
      << serverNewXMLHttpRequest, fetchLiteral, serverNewWebSocket >>,
      << blankLine, blankLine, fetchLiteral, blankLine, blankLine >> }

\* what fs.readFile can return: an empty file, a file with one of the
\* statements, one of the scenarios, or text that @babel/parser rejects
ServerPrograms == SeqsUpTo(ServerStmts, 1) \cup ServerScenarios
ServerContents ==
    {[parses |-> TRUE, items |-> p] : p \in ServerPrograms}
    \cup {[parses |-> FALSE, items |-> <<>>]}
NoSource == [parses |-> FALSE, items |-> <<>>]

\* the option sets of a tool call: the defaults, and each option changed
SettingsChoices ==
    { defaultSettings,
      [defaultSettings EXCEPT !.detectNetworkCalls = FALSE],
      [defaultSettings EXCEPT !.extractMetadata = FALSE],
      [defaultSettings EXCEPT !.generateRequestSpecs = FALSE],
      [defaultSettings EXCEPT !.validateEndpoints = TRUE],
      [defaultSettings EXCEPT !.contextLines = 0],
      [defaultSettings EXCEPT !.contextLines = 1] }

(***************************************************************************)
(* index.ts : analyzeJavaScriptAPIEndpoints                                *)
(***************************************************************************)
AnalyzerIdle ==
    /\ taintedVariables = <<>>
    /\ taintSources = <<>>
    /\ astErrors = <<>>
    /\ totalFiles = 0
    /\ results = newResults(0)
    /\ fileIdx = 0
    /\ content = NoContent
    /\ analysis = NullValue
    /\ pending = <<>>
    /\ pc = "idle"
    /\ outcomes = <<>>

\* the tool has been called on a directory of up to MaxFiles files
InitServer ==
    /\ AnalyzerIdle
    /\ AcornIdle
    /\ RunsIdle
    /\ SessionsIdle
    /\ settings \in SettingsChoices
    /\ jsFilesLength \in 0..MaxFiles
    /\ analysisResults = newAnalysisResults(settings, jsFilesLength)
    /\ processed = <<>>
    /\ toolPc = "loop"

\* a variant that does not count the request specs of the file
pushFile_specsUncounted(res, filePath, networkCalls, metadata, requestSpecs) ==
    [res EXCEPT
       !.files = Append(@, [path |-> filePath,
                            networkCallsCount |-> Len(networkCalls),
                            metadataCount |-> Len(metadata),
                            requestSpecsCount |-> Len(requestSpecs)]),
       !.networkCalls = @ \o networkCalls,
       !.apiEndpoints = @ \o metadata,
       !.requestSpecs = @ \o requestSpecs,
       !.summary.processedFiles = @ + 1,
       !.summary.networkCalls = @ + Len(networkCalls),
       !.summary.apiEndpoints = @ + Len(metadata)]

\* the pushes that end the try block of the loop
pushFile(res, filePath, networkCalls, metadata, requestSpecs) ==
    [res EXCEPT
       !.files = Append(@, [path |-> filePath,
                            networkCallsCount |-> Len(networkCalls),
                            metadataCount |-> Len(metadata),
                            requestSpecsCount |-> Len(requestSpecs)]),
       !.networkCalls = @ \o networkCalls,
       !.apiEndpoints = @ \o metadata,
       !.requestSpecs = @ \o requestSpecs,
       !.summary.processedFiles = @ + 1,
       !.summary.networkCalls = @ + Len(networkCalls),
       !.summary.apiEndpoints = @ + Len(metadata),
       !.summary.requestSpecs = @ + Len(requestSpecs)]

\* fs.readFile throws: the catch of the loop body logs and goes on
ToolReadFileError ==
    /\ toolPc = "loop" /\ Len(processed) < jsFilesLength
    /\ processed' = Append(processed,
                           [outcome |-> "ioError", content |-> NoSource])
    /\ UNCHANGED << settings, analysisResults, jsFilesLength, toolPc >>
    /\ UNCHANGED << analyzerVars, acornVars, runVars, sessionVars >>

\* parseJavaScript returns null: `continue`
ToolParseFailed ==
    /\ toolPc = "loop" /\ Len(processed) < jsFilesLength
    /\ processed' = Append(processed,
                           [outcome |-> "parseError", content |-> NoSource])
    /\ UNCHANGED << settings, analysisResults, jsFilesLength, toolPc >>
    /\ UNCHANGED << analyzerVars, acornVars, runVars, sessionVars >>

\* the file parses: steps 4 to 6 and the pushes, or the catch when the
\* metadata step throws
ToolProcessFile ==
    /\ toolPc = "loop" /\ Len(processed) < jsFilesLength
    /\ \E c \in ServerContents :
          /\ c.parses
          /\ LET relativePath == Len(processed) + 1
                 networkCalls ==
                    IF settings.detectNetworkCalls
                    THEN mcp_detectNetworkCalls(c.items, relativePath,
                                                settings.contextLines)
                    ELSE <<>>
                 throws == settings.extractMetadata
                           /\ extractNetworkCallMetadataThrows(networkCalls)
                 metadata ==
                    IF settings.extractMetadata
                    THEN extractNetworkCallMetadata(networkCalls) ELSE <<>>
                 requestSpecs ==
                    IF settings.generateRequestSpecs
                    THEN generateRequestSpecs(metadata) ELSE <<>>
             IN  IF throws
                 THEN /\ analysisResults' = analysisResults
                      /\ processed' = Append(processed,
                            [outcome |-> "threw", content |-> c])
                 ELSE /\ analysisResults' =
                            pushFile(analysisResults, relativePath,
                                     networkCalls, metadata, requestSpecs)
                      /\ processed' = Append(processed,
                            [outcome |-> "ok", content |-> c])
    /\ UNCHANGED << settings, jsFilesLength, toolPc >>
    /\ UNCHANGED << analyzerVars, acornVars, runVars, sessionVars >>

\* after the loop: step 7, then the report is written
ToolFinish ==
    /\ toolPc = "loop" /\ Len(processed) = jsFilesLength
    /\ analysisResults' =
          IF settings.validateEndpoints
             /\ Len(analysisResults.requestSpecs) > 0
          THEN [analysisResults EXCEPT
                  !.requestSpecs = validateEndpoints(@)]
          ELSE analysisResults
    /\ toolPc' = "done"
    /\ UNCHANGED << settings, jsFilesLength, processed >>
    /\ UNCHANGED << analyzerVars, acornVars, runVars, sessionVars >>

NextServer ==
    \/ ToolReadFileError
    \/ ToolParseFailed
    \/ ToolProcessFile
    \/ ToolFinish

SpecServer == InitServer /\ [][NextServer]_vars

(***************************************************************************)
(* analyze-js-acorn.cjs : class AcornAnalyzer.  acorn.parse is called      *)
(* without the `locations` option, so no node has a loc: every line is 0   *)
(* and every context is "N/A".  A string literal is a Literal node.        *)
(***************************************************************************)
Literal(v) == [type |-> "Literal", value |-> v]

\* walk.simple: children before their parent; only the three node types
\* with a registered handler are listed
RECURSIVE walkSimple(_)
RECURSIVE walkSimpleAll(_)
walkSimpleAll(nodes) ==
    IF Len(nodes) = 0 THEN <<>>
    ELSE walkSimple(Head(nodes)) \o walkSimpleAll(Tail(nodes))

walkSimple(node) ==
    CASE node.type \in {"CallExpression", "NewExpression"} ->
            walkSimple(node.callee) \o walkSimpleAll(node.arguments)
               \o <<node>>
      [] node.type = "AssignmentExpression" ->
            walkSimple(node.left) \o walkSimple(node.right) \o <<node>>
      [] node.type = "MemberExpression" -> walkSimple(node.object)
      [] node.type = "TemplateLiteral" -> walkSimpleAll(node.expressions)
      [] OTHER -> <<>>

RECURSIVE joinQuasis(_)
joinQuasis(quasis) ==
    IF Len(quasis) = 0 THEN "" ELSE Head(quasis) \o joinQuasis(Tail(quasis))

\* extractUrl(node.arguments[0])
extractUrl(args) ==
    IF Len(args) = 0 THEN "N/A"
    ELSE IF args[1].type = "Literal" THEN args[1].value
    ELSE IF isTemplateLiteral(args[1])
    THEN "Template: " \o joinQuasis(args[1].quasis)
    ELSE IF isIdentifier(args[1]) THEN "$" \o args[1].name
    ELSE "N/A"

acornCall(type, url, method) ==
    [type |-> type, url |-> url, method |-> method, line |-> 0,
     context |-> "N/A"]

analyzeCallExpression(node, a) ==
    LET callee == node.callee
        a1 == IF isIdentifier(callee) /\ callee.name = "fetch"
              THEN [a EXCEPT !.networkCalls = Append(@,
                      acornCall("fetch", extractUrl(node.arguments), "GET"))]
              ELSE a
        a2 == IF /\ isMemberExpression(callee)
                 /\ isIdentifier(callee.object)
                 /\ callee.object.name = "axios"
              THEN [a1 EXCEPT !.networkCalls = Append(@,
                      acornCall("axios", extractUrl(node.arguments),
                                toUpperCase(callee.property.name)))]
              ELSE a1
    IN  IF /\ isNewExpression(callee) /\ isIdentifier(callee.callee)
           /\ callee.callee.name = "XMLHttpRequest"
        THEN [a2 EXCEPT !.networkCalls = Append(@,
                acornCall("XMLHttpRequest", "N/A", "N/A"))]
        ELSE a2

analyzeNewExpression(node, a) ==
    IF isIdentifier(node.callee) /\ node.callee.name = "XMLHttpRequest"
    THEN [a EXCEPT !.networkCalls = Append(@,
            acornCall("XMLHttpRequest", "N/A", "N/A"))]
    ELSE a

taintPatterns ==
    << "location", "document", "window", "navigator", "localStorage",
       "sessionStorage", "cookie" >>

isTaintSource(node) ==
    /\ isMemberExpression(node) /\ isIdentifier(node.object)
    /\ node.object.name \in Range(taintPatterns)

getTaintSource(node) ==
    IF isMemberExpression(node)
    THEN node.object.name \o "." \o node.property.name
    ELSE "Unknown"

analyzeAssignment(node, a) ==
    IF isIdentifier(node.left) /\ isTaintSource(node.right)
    THEN [a EXCEPT !.taintSources = Append(@,
            [variable |-> node.left.name, source |-> getTaintSource(node.right),
             line |-> 0])]
    ELSE a

\* the handler walk.simple calls for a node
acornHandler(node, a) ==
    CASE node.type = "CallExpression" -> analyzeCallExpression(node, a)
      [] node.type = "NewExpression" -> analyzeNewExpression(node, a)
      [] node.type = "AssignmentExpression" -> analyzeAssignment(node, a)

RECURSIVE acornWalk(_, _)
acornWalk(nodes, a) ==
    IF Len(nodes) = 0 THEN a
    ELSE acornWalk(Tail(nodes), acornHandler(Head(nodes), a))

\* analyzeFile for content that acorn.parse accepts
acorn_analyzeFile(filePath, program) ==
    acornWalk(walkSimpleAll(program),
              [file |-> filePath, networkCalls |-> <<>>, apiEndpoints |-> <<>>,
               dangerousPatterns |-> <<>>, taintSources |-> <<>>])

(***************************************************************************)
(* analyze-js-acorn.cjs : inputs                                           *)
(***************************************************************************)
newXMLHttpRequest == NewExpression(Identifier("XMLHttpRequest"), <<>>)

AcornStmts ==
    { \* new XMLHttpRequest();
      newXMLHttpRequest,
      \* x = new XMLHttpRequest();
      AssignmentExpression(Identifier("x"), newXMLHttpRequest),
      \* x.open("GET", "/api");
      CallExpression(MemberExpression(Identifier("x"), "open"),
                     <<Literal("GET"), Literal("/api")>>),
      \* new XMLHttpRequest()();
      CallExpression(newXMLHttpRequest, <<>>),
      \* new WebSocket(u);
      NewExpression(Identifier("WebSocket"), <<Identifier("u")>>),
      \* fetch("/a");
      CallExpression(Identifier("fetch"), <<Literal("/a")>>),
      \* fetch(`/u/${id}`);
      CallExpression(Identifier("fetch"),
          <<TemplateLiteral(<<"/u/", "">>, <<Identifier("id")>>)>>),
      \* axios.post(u);
      CallExpression(MemberExpression(Identifier("axios"), "post"),
                     <<Identifier("u")>>),
      \* q = location.search;
      AssignmentExpression(Identifier("q"),
          MemberExpression(Identifier("location"), "search")) }

AcornScenarios ==
    { \* new XMLHttpRequest(); (nothing else in the file: Scenario E)
      \* x = new XMLHttpRequest(); x.open("GET", "/api");
      << AssignmentExpression(Identifier("x"), newXMLHttpRequest),
         CallExpression(MemberExpression(Identifier("x"), "open"),
                        <<Literal("GET"), Literal("/api")>>) >>,
      \* new XMLHttpRequest(); new XMLHttpRequest(); fetch("/a");
      << newXMLHttpRequest, newXMLHttpRequest,
         CallExpression(Identifier("fetch"), <<Literal("/a")>>) >> }

AcornPrograms == SeqsUpTo(AcornStmts, MaxStmts) \cup AcornScenarios
AcornContents ==
    {[parses |-> TRUE, program |-> p] : p \in AcornPrograms}
    \cup {[parses |-> FALSE, program |-> <<>>]}

(***************************************************************************)
(* analyze-js-acorn.cjs : main                                             *)
(***************************************************************************)
InitAcorn ==
    /\ AnalyzerIdle
    /\ ServerIdle
    /\ RunsIdle
    /\ SessionsIdle
    /\ acornTotalFiles \in 0..MaxFiles
    /\ acornResults = newAcornResults(acornTotalFiles)
    /\ acornProcessed = <<>>
    /\ acornPc = "loop"

\* fs.readFile throws: the catch of the loop body logs and goes on
AcornReadFileError ==
    /\ acornPc = "loop" /\ Len(acornProcessed) < acornTotalFiles
    /\ acornProcessed' = Append(acornProcessed,
                                [outcome |-> "ioError", content |-> NoContent])
    /\ UNCHANGED << acornResults, acornTotalFiles, acornPc >>
    /\ UNCHANGED << analyzerVars, serverVars, runVars, sessionVars >>

\* acorn.parse throws: analyzeFile logs and returns null, main skips the file
AcornParseError ==
    /\ acornPc = "loop" /\ Len(acornProcessed) < acornTotalFiles
    /\ acornProcessed' = Append(acornProcessed,
                            [outcome |-> "parseError", content |-> NoContent])
    /\ UNCHANGED << acornResults, acornTotalFiles, acornPc >>
    /\ UNCHANGED << analyzerVars, serverVars, runVars, sessionVars >>

\* main's `if (analysis)` block
acorn_aggregate(res, a) ==
    [res EXCEPT !.files = Append(@, a),
                !.summary.analyzedFiles = @ + 1,
                !.networkCalls = @ \o a.networkCalls,
                !.apiEndpoints = @ \o a.apiEndpoints,
                !.dangerousPatterns = @ \o a.dangerousPatterns,
                !.taintSources = @ \o a.taintSources]

\* the file is read and parsed, its analysis is folded into the results
AcornAnalyzeFile ==
    /\ acornPc = "loop" /\ Len(acornProcessed) < acornTotalFiles
    /\ \E c \in AcornContents :
          /\ c.parses
          /\ acornResults' =
                acorn_aggregate(acornResults,
                   acorn_analyzeFile(Len(acornProcessed) + 1, c.program))
          /\ acornProcessed' = Append(acornProcessed,
                                      [outcome |-> "ok", content |-> c])
    /\ UNCHANGED << acornTotalFiles, acornPc >>
    /\ UNCHANGED << analyzerVars, serverVars, runVars, sessionVars >>

\* after the loop: the summary counts
acorn_finalize(res) ==
    [res EXCEPT !.summary.totalNetworkCalls = Len(res.networkCalls),
                !.summary.totalApiEndpoints = Len(res.apiEndpoints),
                !.summary.totalDangerousPatterns = Len(res.dangerousPatterns),
                !.summary.totalTaintSources = Len(res.taintSources)]

AcornFinish ==
    /\ acornPc = "loop" /\ Len(acornProcessed) = acornTotalFiles
    /\ acornResults' = acorn_finalize(acornResults)
    /\ acornPc' = "done"
    /\ UNCHANGED << acornTotalFiles, acornProcessed >>
    /\ UNCHANGED << analyzerVars, serverVars, runVars, sessionVars >>

NextAcorn ==
    \/ AcornReadFileError
    \/ AcornParseError
    \/ AcornAnalyzeFile
    \/ AcornFinish

SpecAcorn == InitAcorn /\ [][NextAcorn]_vars

(***************************************************************************)
(* Vocabulary of the properties.                                           *)
(***************************************************************************)
\* the paths (1-based positions in jsFiles) of the finished files with an
\* outcome, in list order
RECURSIVE PathsWith(_, _)
PathsWith(outcome, n) ==
    IF n = 0 THEN <<>>
    ELSE IF outcomes[n] = outcome
         THEN Append(PathsWith(outcome, n - 1), n)
         ELSE PathsWith(outcome, n - 1)

RECURSIVE Flatten(_)
Flatten(lists) ==
    IF Len(lists) = 0 THEN <<>> ELSE Head(lists) \o Flatten(Tail(lists))

FilesOf(entries) == [k \in 1..Len(entries) |-> entries[k].file]

\* a step of the traversal that calls the visitor of a node of this type
VisitStep(type) ==
    /\ pc = "traverse" /\ pending # <<>>
    /\ Head(pending).node.type = type
    /\ pending' = Tail(pending)

isFetchCall(node) ==
    isCallExpression(node) /\ isIdentifier(node.callee)
    /\ node.callee.name = "fetch"

\* the endpoints a step appends to the analysis of the current file
newEndpoints ==
    SubSeq(analysis'.apiEndpoints, Len(analysis.apiEndpoints) + 1,
           Len(analysis'.apiEndpoints))

\* the analysis a new TaintAnalyzer() returns for a program
RECURSIVE applyVisits(_, _)
applyVisits(ctx, visits) ==
    IF Len(visits) = 0 THEN ctx
    ELSE applyVisits(Visit(ctx, Head(visits).node, Head(visits).line),
                     Tail(visits))

analysisByNewAnalyzer(program, filePath) ==
    applyVisits([taintedVariables |-> <<>>, taintSources |-> <<>>,
                 analysis |-> newAnalysis(filePath)],
                Visits(program, 1)).analysis

(***************************************************************************)
(* C1: every file whose parse fails has exactly one entry in the error     *)
(* list, is absent from results.files and from the analysedFiles count and *)
(* adds nothing to the aggregated lists, and every file that was read and  *)
(* parsed is in results.files, in list order, whatever failed before it.   *)
(***************************************************************************)
C1_ParseFailureIsolated ==
    /\ FilesOf(astErrors) = PathsWith("parseError", Len(outcomes))
    /\ FilesOf(results.files) = PathsWith("ok", Len(outcomes))
    /\ results.summary.analyzedFiles = Len(PathsWith("ok", Len(outcomes)))
    /\ results.networkCalls =
          Flatten([k \in 1..Len(results.files) |->
                      results.files[k].networkCalls])
    /\ results.apiEndpoints =
          Flatten([k \in 1..Len(results.files) |->
                      results.files[k].apiEndpoints])
    /\ results.dangerousPatterns =
          Flatten([k \in 1..Len(results.files) |->
                      results.files[k].dangerousPatterns])
    /\ pc = "done" =>
          /\ Len(outcomes) = totalFiles
          /\ results.astErrors = astErrors
          /\ results.summary.astErrors =
                Len(PathsWith("parseError", Len(outcomes)))

\* a finished run in which a file with network calls was analysed after a
\* file that failed to parse
C1_Witness ==
    /\ pc = "done"
    /\ \E i, j \in 1..Len(outcomes) :
          /\ i < j /\ outcomes[i] = "parseError" /\ outcomes[j] = "ok"
          /\ \E k \in 1..Len(results.files) :
                /\ results.files[k].file = j
                /\ results.files[k].apiEndpoints # <<>>

(***************************************************************************)
(* C2: the analysis returned for a file is the analysis a new analyser     *)
(* returns for it, whatever files the analyser has handled before.         *)
(***************************************************************************)
C2_TaintResetBetweenFiles ==
    (pc = "traverse" /\ pending = <<>>) =>
        analysis = analysisByNewAnalyzer(content.program, fileIdx + 1)

(***************************************************************************)
(* C3: no step removes a name from the tainted set of the analyser or from *)
(* the tainted set of the file being analysed.                             *)
(***************************************************************************)
C3_TaintMonotonic ==
    [][ /\ Range(taintedVariables) \subseteq Range(taintedVariables')
        /\ (pc = "traverse" /\ pc' = "traverse") =>
              Range(analysis.taintedVariables)
                 \subseteq Range(analysis'.taintedVariables) ]_vars

\* g was tainted in this file and the later statement g = "a" has been
\* handled: g is still tainted
C3_Witness ==
    /\ pc = "traverse" /\ pending = <<>>
    /\ "g" \in Range(analysis.taintedVariables)
    /\ "g" \in Range(taintedVariables)
    /\ \E i \in 1..Len(content.program) :
          content.program[i] =
             AssignmentExpression(Identifier("g"), StringLiteral("a"))

(***************************************************************************)
(* Vocabulary of the risk properties: the expressions that contribute to   *)
(* the URL of a call, and whether one of them carries taint.               *)
(***************************************************************************)
RECURSIVE contributesTaint(_, _)
contributesTaint(tainted, expr) ==
    CASE isIdentifier(expr) -> expr.name \in Range(tainted)
      [] isMemberExpression(expr) ->
            \/ getMemberExpressionString(expr) \in Range(tainted)
            \/ getMemberExpressionString(expr) \in Range(taintSourcesCatalog)
      [] expr.type = "BinaryExpression" ->
            \/ contributesTaint(tainted, expr.left)
            \/ contributesTaint(tainted, expr.right)
      [] isTemplateLiteral(expr) ->
            \E i \in 1..Len(expr.expressions) :
               contributesTaint(tainted, expr.expressions[i])
      [] OTHER -> FALSE

\* the right-hand side of the declaration or assignment being visited and
\* the variable it is assigned to
assignedValue(node) ==
    IF node.type = "VariableDeclarator" THEN node.init ELSE node.right
assignedName(node) ==
    IF node.type = "VariableDeclarator" THEN node.id.name ELSE node.left.name
AssignStep ==
    VisitStep("VariableDeclarator") \/ VisitStep("AssignmentExpression")

FetchStep ==
    /\ VisitStep("CallExpression")
    /\ isFetchCall(Head(pending).node)
    /\ Len(Head(pending).node.arguments) > 0

(***************************************************************************)
(* C4: the endpoint of a fetch call is HIGH exactly when an identifier or  *)
(* source expression that contributes to its URL is tainted.               *)
(***************************************************************************)
C4_HighIffTaintContributes ==
    [][ FetchStep =>
          \A k \in 1..Len(newEndpoints) :
             (newEndpoints[k].riskLevel = "HIGH")
                <=> contributesTaint(taintedVariables,
                                     Head(pending).node.arguments[1]) ]_vars

(***************************************************************************)
(* C5: a declaration or assignment whose right-hand side is a catalog      *)
(* source property path taints the assigned variable.                      *)
(***************************************************************************)
C5_SourceReferenceTaints ==
    [][ ( /\ AssignStep
          /\ isMemberExpression(assignedValue(Head(pending).node))
          /\ getMemberExpressionString(assignedValue(Head(pending).node))
                \in Range(taintSourcesCatalog) )
        => assignedName(Head(pending).node) \in Range(taintedVariables')
      ]_vars

(***************************************************************************)
(* C6: a declaration or assignment whose right-hand side is a call of a    *)
(* catalog source function or member taints the assigned variable.         *)
(***************************************************************************)
isSourceCall(expr) ==
    /\ isCallExpression(expr)
    /\ \/ /\ isMemberExpression(expr.callee)
          /\ getMemberExpressionString(expr.callee)
                \in Range(taintSourcesCatalog)
       \/ /\ isIdentifier(expr.callee)
          /\ expr.callee.name \in Range(userInputFunctions)

C6_SourceCallTaints ==
    [][ (AssignStep /\ isSourceCall(assignedValue(Head(pending).node)))
        => assignedName(Head(pending).node) \in Range(taintedVariables')
      ]_vars

(***************************************************************************)
(* C7: a fetch call whose URL is a + concatenation with a tainted variable *)
(* as an operand yields a HIGH endpoint.                                   *)
(***************************************************************************)
hasTaintedOperand(tainted, expr) ==
    /\ expr.type = "BinaryExpression" /\ expr.operator = "+"
    /\ \/ isIdentifier(expr.left) /\ expr.left.name \in Range(tainted)
       \/ isIdentifier(expr.right) /\ expr.right.name \in Range(tainted)

C7_TaintedConcatIsHigh ==
    [][ ( /\ FetchStep
          /\ hasTaintedOperand(taintedVariables,
                               Head(pending).node.arguments[1]) )
        => /\ Len(newEndpoints) = 1
           /\ newEndpoints[1].riskLevel = "HIGH" ]_vars

(***************************************************************************)
(* C8: a fetch call with a single string literal argument, analysed when   *)
(* nothing is tainted, yields exactly one endpoint, with method GET, the   *)
(* literal as url and riskLevel LOW.                                       *)
(***************************************************************************)
C8_StaticFetchIsLow ==
    [][ ( /\ FetchStep
          /\ Len(Head(pending).node.arguments) = 1
          /\ isStringLiteral(Head(pending).node.arguments[1])
          /\ taintedVariables = <<>> )
        => /\ Len(newEndpoints) = 1
           /\ newEndpoints[1].method = "GET"
           /\ newEndpoints[1].url = Head(pending).node.arguments[1].value
           /\ newEndpoints[1].riskLevel = "LOW" ]_vars

(***************************************************************************)
(* Vocabulary of the server properties.                                    *)
(***************************************************************************)
HttpMethods == {"GET", "POST", "PUT", "PATCH", "DELETE", "HEAD", "OPTIONS"}

\* the call has an options object with a method property
carriesMethod(call) ==
    /\ Len(call.arguments) >= 2 /\ call.arguments[2].type = "object"
    /\ hasKey(call.arguments[2].value, "method")

\* the first line of statement j of a file
RECURSIVE firstLineOf(_, _)
firstLineOf(items, j) ==
    IF j = 1 THEN 1
    ELSE firstLineOf(items, j - 1) + Len(items[j - 1].lines)

\* the endpoints of the report that come from a line of a file
endpointsAt(filePath, line) ==
    {k \in 1..Len(analysisResults.apiEndpoints) :
        /\ analysisResults.apiEndpoints[k].file = filePath
        /\ analysisResults.apiEndpoints[k].line = line}

isAxiosBodyCall(node) ==
    /\ isCallExpression(node) /\ isMemberExpression(node.callee)
    /\ isIdentifier(node.callee.object) /\ node.callee.object.name = "axios"
    /\ node.callee.property.name \in {"post", "put", "patch"}
    /\ Len(node.arguments) >= 2 /\ isObjectExpression(node.arguments[2])

(***************************************************************************)
(* C9: every detected fetch or axios call site gets a method, the method   *)
(* is one of the seven upper-case HTTP methods, and it is GET for a fetch  *)
(* call that carries no method in an options object.                       *)
(***************************************************************************)
C9_MethodIsHttpMethod ==
    /\ \A i \in 1..Len(processed) : processed[i].outcome # "threw"
    /\ \A k \in 1..Len(analysisResults.apiEndpoints) :
          LET e == analysisResults.apiEndpoints[k]
          IN  e.type \in {"fetch", "axios"} =>
                 /\ e.metadata.method \in HttpMethods
                 /\ (e.type = "fetch" /\ ~carriesMethod(e)) =>
                       e.metadata.method = "GET"

(***************************************************************************)
(* C10: with detection and metadata extraction enabled, an axios.post,     *)
(* axios.put or axios.patch call with an object literal as second argument *)
(* has exactly one endpoint, whose method is the upper-cased member name   *)
(* and whose body is the reconstruction of the second argument.            *)
(***************************************************************************)
C10_AxiosBodyIsSecondArgument ==
    (settings.detectNetworkCalls /\ settings.extractMetadata) =>
       \A i \in 1..Len(processed) :
          \A j \in 1..Len(processed[i].content.items) :
             LET node == processed[i].content.items[j].node
                 found == endpointsAt(i,
                             firstLineOf(processed[i].content.items, j))
             IN  isAxiosBodyCall(node) =>
                    /\ Cardinality(found) = 1
                    /\ \A k \in found :
                          LET e == analysisResults.apiEndpoints[k]
                          IN  /\ e.metadata.method =
                                    toUpperCase(node.callee.property.name)
                              /\ e.metadata.body =
                                    jsObject(extractObjectExpression(
                                                node.arguments[2]))

(***************************************************************************)
(* Vocabulary of the Acorn properties.                                     *)
(***************************************************************************)
isNewXMLHttpRequest(node) ==
    /\ isNewExpression(node) /\ isIdentifier(node.callee)
    /\ node.callee.name = "XMLHttpRequest"

ofType(calls, type) == SelectSeq(calls, LAMBDA c : c.type = type)

(***************************************************************************)
(* C11: for every file the Acorn analyser has analysed, the networkCalls   *)
(* entries of type XMLHttpRequest are as many as the new XMLHttpRequest()  *)
(* expressions of the file, and each has method "N/A" and url "N/A".       *)
(***************************************************************************)
C11_OneEntryPerNewXhr ==
    \A k \in 1..Len(acornResults.files) :
       LET a == acornResults.files[k]
           program == acornProcessed[a.file].content.program
           found == ofType(a.networkCalls, "XMLHttpRequest")
       IN  /\ Len(found) =
                 Len(SelectSeq(walkSimpleAll(program), isNewXMLHttpRequest))
           /\ \A i \in 1..Len(found) :
                 found[i].method = "N/A" /\ found[i].url = "N/A"

(***************************************************************************)
(* Vocabulary of the call-site properties of the tool.                     *)
(***************************************************************************)
\* the call sites of the report that come from a line of a file
callsAt(filePath, line) ==
    {k \in 1..Len(analysisResults.networkCalls) :
        /\ analysisResults.networkCalls[k].file = filePath
        /\ analysisResults.networkCalls[k].line = line}

\* statement j of finished file i, and the line it starts on
statementNode(i, j) == processed[i].content.items[j].node
statementLine(i, j) == firstLineOf(processed[i].content.items, j)

isNewOf(node, name) ==
    /\ isNewExpression(node) /\ isIdentifier(node.callee)
    /\ node.callee.name = name

(***************************************************************************)
(* C12: with detection enabled, every new XMLHttpRequest() of a processed  *)
(* file is a call site of type XMLHttpRequest, and every new WebSocket(url)*)
(* is a call site of type WebSocket whose first argument is the URL and,   *)
(* with metadata extraction enabled, whose endpoint has method "WS".       *)
(***************************************************************************)
C12_ConstructorsRecognized ==
    settings.detectNetworkCalls =>
       \A i \in 1..Len(processed) :
          processed[i].outcome = "ok" =>
             \A j \in 1..Len(processed[i].content.items) :
                LET node == statementNode(i, j)
                    calls == callsAt(i, statementLine(i, j))
                    ends == endpointsAt(i, statementLine(i, j))
                IN  /\ isNewOf(node, "XMLHttpRequest") =>
                          \E k \in calls :
                             analysisResults.networkCalls[k].type
                                = "XMLHttpRequest"
                    /\ isNewOf(node, "WebSocket") =>
                          /\ \E k \in calls :
                                LET c == analysisResults.networkCalls[k]
                                IN  /\ c.type = "WebSocket"
                                    /\ c.arguments[1]
                                          = extractArgument(node.arguments[1])
                          /\ settings.extractMetadata =>
                                \E k \in ends :
                                   analysisResults.apiEndpoints[k]
                                      .metadata.method = "WS"

(***************************************************************************)
(* Vocabulary of the axios property of the taint analyser.                 *)
(***************************************************************************)
\* the network calls a step appends to the analysis of the current file
newNetworkCalls ==
    SubSeq(analysis'.networkCalls, Len(analysis.networkCalls) + 1,
           Len(analysis'.networkCalls))

isAxiosMethodCall(node) ==
    /\ isCallExpression(node) /\ isMemberExpression(node.callee)
    /\ isIdentifier(node.callee.object) /\ node.callee.object.name = "axios"
    /\ node.callee.property.name \in Range(axiosMethods)

(***************************************************************************)
(* C13: when the visit of a call records a network call of type axios, the *)
(* callee is axios.<method> with <method> one of the seven axios methods,  *)
(* and the recorded method is that name in upper case.                     *)
(***************************************************************************)
C13_AxiosOnlyForAxiosMember ==
    [][ VisitStep("CallExpression") =>
          \A k \in 1..Len(newNetworkCalls) :
             newNetworkCalls[k].type = "axios" =>
                /\ isAxiosMethodCall(Head(pending).node)
                /\ newNetworkCalls[k].method =
                      toUpperCase(Head(pending).node.callee.property.name)
      ]_vars

(***************************************************************************)
(* Vocabulary of the error-handling properties of the tool.                *)
(***************************************************************************)
\* the error entries of a report; the report has them under `errors`
errorEntries(report) ==
    IF "errors" \in DOMAIN report THEN report.errors ELSE <<>>

\* the entries of a list of the report that come from a file
entriesOf(list, filePath) ==
    {k \in 1..Len(list) : list[k].file = filePath}

(***************************************************************************)
(* C14: every file of the tool run whose processing failed (unreadable,    *)
(* unparsable, or an exception in detection or inference) has an error     *)
(* entry in the report and no finding in it, and once the run is done      *)
(* every file has been handled and every file that did not fail is listed. *)
(***************************************************************************)
C14_FileErrorsReported ==
    /\ \A i \in 1..Len(processed) :
          processed[i].outcome # "ok" =>
             /\ \E k \in 1..Len(errorEntries(analysisResults)) :
                   errorEntries(analysisResults)[k].file = i
             /\ entriesOf(analysisResults.networkCalls, i) = {}
             /\ entriesOf(analysisResults.apiEndpoints, i) = {}
             /\ \A k \in 1..Len(analysisResults.files) :
                   analysisResults.files[k].path # i
    /\ toolPc = "done" =>
          /\ Len(processed) = jsFilesLength
          /\ \A i \in 1..Len(processed) :
                processed[i].outcome = "ok" =>
                   \E k \in 1..Len(analysisResults.files) :
                      analysisResults.files[k].path = i

(***************************************************************************)
(* C15: with detection and metadata extraction enabled, every statement of *)
(* a parsed file that is a fetch call or an axios.<method> call has an     *)
(* endpoint in the report, whatever its arguments are and whatever the     *)
(* other calls of the file are.                                            *)
(***************************************************************************)
C15_MatchedCallNeverDropped ==
    (settings.detectNetworkCalls /\ settings.extractMetadata) =>
       \A i \in 1..Len(processed) :
          \A j \in 1..Len(processed[i].content.items) :
             (isFetchCall(statementNode(i, j))
                 \/ isAxiosMethodCall(statementNode(i, j)))
             => endpointsAt(i, statementLine(i, j)) # {}

(***************************************************************************)
(* Vocabulary of the context-window property.                              *)
(***************************************************************************)
\* the lines of finished file i, as content.split('\n') gives them
sourceLines(i) == linesOf(processed[i].content.items)

\* the text of a list of lines, one per line
RECURSIVE textOf(_)
textOf(lines) ==
    IF Len(lines) = 0 THEN ""
    ELSE IF Len(lines) = 1 THEN lines[1]
    ELSE textOf(SubSeq(lines, 1, Len(lines) - 1)) \o "\n" \o lines[Len(lines)]

(***************************************************************************)
(* C16: a call site of a file of L lines, spanning lines s..e, captured    *)
(* with contextLines = N, has contextStart = max(1, s - N) and             *)
(* contextEnd = min(L, e + N), hence 1 <= contextStart <= s <= e <=        *)
(* contextEnd <= L, and its context is the text of the source lines        *)
(* contextStart..contextEnd.                                               *)
(***************************************************************************)
C16_ContextWindowClamped ==
    \A i \in 1..Len(processed) :
       \A j \in 1..Len(processed[i].content.items) :
          \A k \in callsAt(i, statementLine(i, j)) :
             LET c == analysisResults.networkCalls[k]
                 N == settings.contextLines
                 L == Len(sourceLines(i))
                 s == statementLine(i, j)
                 e == s + Len(processed[i].content.items[j].lines) - 1
             IN  /\ c.contextStart = Max(1, s - N)
                 /\ c.contextEnd = Min(L, e + N)
                 /\ 1 <= c.contextStart /\ c.contextStart <= s /\ s <= e
                 /\ e <= c.contextEnd /\ c.contextEnd <= L
                 /\ c.context =
                       textOf(SubSeq(sourceLines(i), c.contextStart,
                                     c.contextEnd))

\* with contextLines = 1: a call site whose window is cut by neither end of
\* its file, one on the first line of a file (window cut at line 1) and one
\* on the last line of a file (window cut at line L)
C16_Witness ==
    /\ settings.contextLines = 1
    /\ \E k \in 1..Len(analysisResults.networkCalls) :
          LET c == analysisResults.networkCalls[k]
          IN  /\ c.contextStart = c.line - 1 /\ c.contextStart > 1
              /\ c.contextEnd = c.line + 1
              /\ c.contextEnd < Len(sourceLines(c.file))
    /\ \E k \in 1..Len(analysisResults.networkCalls) :
          LET c == analysisResults.networkCalls[k]
          IN  c.line = 1 /\ c.contextStart = 1
    /\ \E k \in 1..Len(analysisResults.networkCalls) :
          LET c == analysisResults.networkCalls[k]
          IN  /\ c.line = Len(sourceLines(c.file)) /\ c.line > 1
              /\ c.contextEnd = c.line

(***************************************************************************)
(* Vocabulary of the auth property.                                        *)
(***************************************************************************)
\* the text has the word at some position, letter case ignored
mentions(text, word) ==
    LET TEXT == toUpperCase(text)
        WORD == toUpperCase(word)
    IN  \E p \in 1..(Len(TEXT) - Len(WORD) + 1) :
           SubSeq(TEXT, p, p + Len(WORD) - 1) = WORD

bearerAuth == [type |-> "bearer", token |-> "${TOKEN}"]
basicAuth == [type |-> "basic", credentials |-> "${CREDENTIALS}"]

(***************************************************************************)
(* C17: the auth of every endpoint is determined by its context window:    *)
(* bearer when the window mentions "bearer" or "token" in any letter case  *)
(* (also when it mentions "basic" too), otherwise basic when it mentions   *)
(* "basic", otherwise none; endpoints with equal windows have equal auth.  *)
(***************************************************************************)
C17_AuthFromContextWindow ==
    /\ \A k \in 1..Len(analysisResults.apiEndpoints) :
          LET e == analysisResults.apiEndpoints[k]
              bearer == mentions(e.context, "bearer")
                           \/ mentions(e.context, "token")
              basic == mentions(e.context, "basic")
          IN  /\ bearer => e.metadata.auth = bearerAuth
              /\ (~bearer /\ basic) => e.metadata.auth = basicAuth
              /\ (~bearer /\ ~basic) => e.metadata.auth = jsNull
    /\ \A k1, k2 \in 1..Len(analysisResults.apiEndpoints) :
          analysisResults.apiEndpoints[k1].context
             = analysisResults.apiEndpoints[k2].context
          => analysisResults.apiEndpoints[k1].metadata.auth
                = analysisResults.apiEndpoints[k2].metadata.auth

\* an endpoint whose window mentions both schemes and is bearer, one whose
\* window mentions only "token", and one whose window mentions only basic
C17_Witness ==
    /\ \E k \in 1..Len(analysisResults.apiEndpoints) :
          LET e == analysisResults.apiEndpoints[k]
          IN  /\ mentions(e.context, "basic") /\ mentions(e.context, "bearer")
              /\ e.metadata.auth = bearerAuth
    /\ \E k \in 1..Len(analysisResults.apiEndpoints) :
          LET e == analysisResults.apiEndpoints[k]
          IN  \/ /\ mentions(e.context, "token")
                 /\ ~mentions(e.context, "bearer")
                 /\ e.metadata.auth = bearerAuth
              \/ /\ mentions(e.context, "basic")
                 /\ ~mentions(e.context, "bearer")
                 /\ e.metadata.auth = basicAuth

(***************************************************************************)
(* C18: at every point of a tool run the three counts of the summary are   *)
(* the lengths of the three lists of the report, processedFiles is the     *)
(* number of entries of files and at most totalFiles; and when detection,  *)
(* metadata extraction and spec generation are all enabled, the three      *)
(* lists have the same length and order: endpoint k is call site k with    *)
(* its metadata, and request spec k carries the method, url and source     *)
(* file and line of endpoint k, also after validateEndpoints.              *)
(***************************************************************************)
C18_SummaryMatchesLists ==
    LET r == analysisResults
    IN  /\ r.summary.networkCalls = Len(r.networkCalls)
        /\ r.summary.apiEndpoints = Len(r.apiEndpoints)
        /\ r.summary.requestSpecs = Len(r.requestSpecs)
        /\ r.summary.processedFiles = Len(r.files)
        /\ r.summary.processedFiles <= r.summary.totalFiles
        /\ r.summary.totalFiles = jsFilesLength
        /\ ( /\ settings.detectNetworkCalls /\ settings.extractMetadata
             /\ settings.generateRequestSpecs )
           => /\ Len(r.apiEndpoints) = Len(r.networkCalls)
              /\ Len(r.requestSpecs) = Len(r.apiEndpoints)
              /\ \A k \in 1..Len(r.networkCalls) :
                    /\ r.apiEndpoints[k].file = r.networkCalls[k].file
                    /\ r.apiEndpoints[k].line = r.networkCalls[k].line
                    /\ r.apiEndpoints[k].callType = r.networkCalls[k].callType
                    /\ r.requestSpecs[k].method
                          = r.apiEndpoints[k].metadata.method
                    /\ r.requestSpecs[k].url = r.apiEndpoints[k].metadata.url
                    /\ r.requestSpecs[k].source.file = r.apiEndpoints[k].file
                    /\ r.requestSpecs[k].source.line = r.apiEndpoints[k].line

\* a finished run with validation in which one file failed and another
\* contributed several call sites
C18_Witness ==
    /\ toolPc = "done" /\ settings.validateEndpoints
    /\ Len(analysisResults.requestSpecs) >= 2
    /\ "validation" \in DOMAIN analysisResults.requestSpecs[1]
    /\ analysisResults.summary.processedFiles
          < analysisResults.summary.totalFiles
    /\ \E i \in 1..Len(processed) : processed[i].outcome = "threw"

(***************************************************************************)
(* C20: the url of the endpoint of a fetch or axios call is the            *)
(* reconstruction of the first argument: the value of a string literal,    *)
(* the chunks of a template literal with ${...} for each interpolation,    *)
(* "$x" for an identifier x, and "..." for any other kind of expression.   *)
(***************************************************************************)
reconstructedUrl(arg) ==
    IF isStringLiteral(arg) THEN arg.value
    ELSE IF isTemplateLiteral(arg) THEN mcp_extractTemplateLiteral(arg)
    ELSE IF isIdentifier(arg) THEN "$" \o arg.name
    ELSE "..."

C20_UrlIsFirstArgument ==
    \A i \in 1..Len(processed) :
       \A j \in 1..Len(processed[i].content.items) :
          LET node == statementNode(i, j)
          IN  ( /\ isFetchCall(node) \/ isAxiosMethodCall(node)
                /\ Len(node.arguments) >= 1 )
              => \A k \in endpointsAt(i, statementLine(i, j)) :
                    analysisResults.apiEndpoints[k].metadata.url
                       = reconstructedUrl(node.arguments[1])

(***************************************************************************)
(* Two runs over one ordered list of files with identical contents: two    *)
(* calls of main() of analyze-js.js, each with the TaintAnalyzer it        *)
(* constructs, or two passes of detectNetworkCalls and                     *)
(* extractNetworkCallMetadata of index.ts.  The runs advance file by file  *)
(* in any interleaving.                                                    *)
(***************************************************************************)
RunIds == {1, 2}

\* the files of a run: the scenarios, one short file and an unparsable one
RunContents ==
    {[parses |-> TRUE, program |-> p] :
        p \in Scenarios
              \cup {<<CallExpression(Identifier("fetch"),
                                     <<StringLiteral("/g")>>)>>}}
    \cup {[parses |-> FALSE, program |-> <<>>]}
RunServerContents ==
    {[parses |-> TRUE, items |-> p] : p \in ServerScenarios}
    \cup {[parses |-> FALSE, items |-> <<>>]}

\* new TaintAnalyzer()
newTaintAnalyzer ==
    [taintedVariables |-> <<>>, taintSources |-> <<>>, astErrors |-> <<>>]

newRun(n) ==
    [analyzer |-> newTaintAnalyzer, results |-> newResults(n),
     apiEndpoints |-> <<>>, next |-> 0, done |-> FALSE]

InitTwoRuns ==
    /\ AnalyzerIdle
    /\ ServerIdle
    /\ AcornIdle
    /\ SessionsIdle
    /\ \/ runInput \in {[kind |-> "main", files |-> f] :
                           f \in SeqsUpTo(RunContents, MaxFiles)}
       \/ runInput \in {[kind |-> "tool", files |-> f] :
                           f \in SeqsUpTo(RunServerContents, MaxFiles)}
    /\ runs = [r \in RunIds |-> newRun(Len(runInput.files))]

\* a variant in which every run uses the analyser of the first run
analyzerOf_shared(rs, r) == rs[1].analyzer

\* main's local `analyzer` of a run
analyzerOf(rs, r) == rs[r].analyzer

\* one iteration of main's loop in run r: analyzeFile and the aggregation
RunMainFile(r) ==
    /\ runInput.kind = "main"
    /\ runs[r].next < Len(runInput.files)
    /\ LET filePath == runs[r].next + 1
           c == runInput.files[filePath]
           analyzer == analyzerOf(runs, r)
           out == applyVisits(
                     [taintedVariables |-> analyzer.taintedVariables,
                      taintSources |-> analyzer.taintSources,
                      analysis |-> newAnalysis(filePath)],
                     Visits(c.program, 1))
       IN  runs' =
              IF c.parses
              THEN [runs EXCEPT
                      ![r].analyzer =
                         [analyzer EXCEPT
                            !.taintedVariables = out.taintedVariables,
                            !.taintSources = out.taintSources],
                      ![r].results = aggregate(@, out.analysis),
                      ![r].next = filePath]
              ELSE [runs EXCEPT
                      ![r].analyzer =
                         [analyzer EXCEPT
                            !.astErrors = recordAstError(@, filePath)],
                      ![r].next = filePath]
    /\ UNCHANGED runInput
    /\ UNCHANGED << analyzerVars, serverVars, acornVars, sessionVars >>

\* the end of main in run r
RunMainFinish(r) ==
    /\ runInput.kind = "main"
    /\ runs[r].next = Len(runInput.files) /\ ~runs[r].done
    /\ runs' = [runs EXCEPT
                  ![r].results = finalize(@, runs[r].analyzer.astErrors),
                  ![r].done = TRUE]
    /\ UNCHANGED runInput
    /\ UNCHANGED << analyzerVars, serverVars, acornVars, sessionVars >>

\* steps 3 to 5 of the tool for the next file of run r, default options
RunToolFile(r) ==
    /\ runInput.kind = "tool"
    /\ runs[r].next < Len(runInput.files)
    /\ LET filePath == runs[r].next + 1
           c == runInput.files[filePath]
           networkCalls ==
              mcp_detectNetworkCalls(c.items, filePath,
                                     defaultSettings.contextLines)
       IN  runs' =
              IF c.parses /\ ~extractNetworkCallMetadataThrows(networkCalls)
              THEN [runs EXCEPT
                      ![r].apiEndpoints =
                         @ \o extractNetworkCallMetadata(networkCalls),
                      ![r].next = filePath]
              ELSE [runs EXCEPT ![r].next = filePath]
    /\ UNCHANGED runInput
    /\ UNCHANGED << analyzerVars, serverVars, acornVars, sessionVars >>

RunToolFinish(r) ==
    /\ runInput.kind = "tool"
    /\ runs[r].next = Len(runInput.files) /\ ~runs[r].done
    /\ runs' = [runs EXCEPT ![r].done = TRUE]
    /\ UNCHANGED runInput
    /\ UNCHANGED << analyzerVars, serverVars, acornVars, sessionVars >>

NextTwoRuns ==
    \/ \E r \in RunIds : RunMainFile(r)
    \/ \E r \in RunIds : RunMainFinish(r)
    \/ \E r \in RunIds : RunToolFile(r)
    \/ \E r \in RunIds : RunToolFinish(r)

SpecTwoRuns == InitTwoRuns /\ [][NextTwoRuns]_vars

taintedName(tainted, expr) ==
    \/ isIdentifier(expr) /\ expr.name \in Range(tainted)
    \/ /\ isMemberExpression(expr)
       /\ getMemberExpressionString(expr) \in Range(tainted)

\* the findings a step appends to the analysis of the current file
newPatterns ==
    SubSeq(analysis'.dangerousPatterns, Len(analysis.dangerousPatterns) + 1,
           Len(analysis'.dangerousPatterns))

\* a step keeps the findings that the current file already has
keepsPatterns ==
    /\ Len(analysis'.dangerousPatterns) >= Len(analysis.dangerousPatterns)
    /\ SubSeq(analysis'.dangerousPatterns, 1, Len(analysis.dangerousPatterns))
          = analysis.dangerousPatterns

patternsOfType(patterns, type) ==
    {k \in 1..Len(patterns) : patterns[k].type = type}

(***************************************************************************)
(* C24: the visit of a binary expression appends a string_concat finding   *)
(* exactly when the operator is + and the left or the right operand is     *)
(* tainted at that moment; otherwise it appends nothing; it never adds an  *)
(* endpoint.                                                               *)
(***************************************************************************)
C24_BinaryExpressionRule ==
    [][ VisitStep("BinaryExpression") =>
          LET node == Head(pending).node
              found == /\ node.operator = "+"
                       /\ \/ taintedName(taintedVariables, node.left)
                          \/ taintedName(taintedVariables, node.right)
          IN /\ keepsPatterns
             /\ Len(newPatterns) = IF found THEN 1 ELSE 0
             /\ \A k \in 1..Len(newPatterns) :
                   newPatterns[k].type = "string_concat"
             /\ analysis'.apiEndpoints = analysis.apiEndpoints ]_vars

\* a file whose only finding of this kind comes from `y + "/s"`, although
\* `g == "a"` and `"/s" - y` have a tainted operand too
C24_Witness ==
    /\ pc = "traverse"
    /\ content.program = ReadsAfterLet
    /\ pending = <<>>
    /\ Cardinality(patternsOfType(analysis.dangerousPatterns,
                                  "string_concat")) = 1

(***************************************************************************)
(* C25: the visit of a template literal appends a                          *)
(* template_literal_injection finding if and only if at least one of its   *)
(* interpolated expressions is tainted, and never more than one.           *)
(***************************************************************************)
C25_TemplateLiteralRule ==
    [][ VisitStep("TemplateLiteral") =>
          LET node == Head(pending).node
              some == \E i \in 1..Len(node.expressions) :
                         taintedName(taintedVariables, node.expressions[i])
          IN /\ keepsPatterns
             /\ Len(newPatterns) = IF some THEN 1 ELSE 0
             /\ \A k \in 1..Len(newPatterns) :
                   newPatterns[k].type = "template_literal_injection"
        ]_vars

\* a file with one template literal holding two tainted interpolations and
\* another holding an untainted one: a single finding
C25_Witness ==
    /\ pc = "traverse"
    /\ content.program = ReadsAfterLet
    /\ pending = <<>>
    /\ {"y", "g"} \subseteq Range(taintedVariables)
    /\ Cardinality(patternsOfType(analysis.dangerousPatterns,
                                  "template_literal_injection")) = 1

(***************************************************************************)
(* C26: taint follows source order.  Assigning or declaring x from a       *)
(* variable that is tainted at that moment taints x; a read of a variable  *)
(* as a + operand, as a template interpolation or as the URL of a fetch is *)
(* reported as tainted when the variable is tainted at that moment, and is *)
(* not reported when it is not (it is only tainted by a later statement).  *)
(***************************************************************************)
identifiersOnly(exprs) ==
    \A i \in 1..Len(exprs) : isIdentifier(exprs[i]) \/ isStringLiteral(exprs[i])

C26_TaintFollowsSourceOrder ==
    [][ LET node == Head(pending).node
        IN /\ ( /\ AssignStep
                /\ isIdentifier(assignedValue(node))
                /\ assignedValue(node).name \in Range(taintedVariables) )
              => assignedName(node) \in Range(taintedVariables')
           /\ ( /\ VisitStep("BinaryExpression")
                /\ node.operator = "+"
                /\ identifiersOnly(<<node.left, node.right>>) )
              => ( Len(newPatterns) = 1
                     <=> \/ taintedName(taintedVariables, node.left)
                         \/ taintedName(taintedVariables, node.right) )
           /\ ( /\ VisitStep("TemplateLiteral")
                /\ identifiersOnly(node.expressions) )
              => ( Len(newPatterns) = 1
                     <=> \E i \in 1..Len(node.expressions) :
                            taintedName(taintedVariables,
                                        node.expressions[i]) )
           /\ ( /\ FetchStep
                /\ isIdentifier(node.arguments[1]) )
              => /\ Len(newEndpoints) = 1
                 /\ (newEndpoints[1].riskLevel = "HIGH")
                       <=> node.arguments[1].name \in Range(taintedVariables)
      ]_vars

(***************************************************************************)
(* C29: on a fresh analyser only a call whose callee is a catalog member   *)
(* path seeds the tainted set: while the set is empty, every other step    *)
(* leaves it empty, reports no dangerous pattern and rates no endpoint     *)
(* HIGH, whatever source property references the file holds.               *)
(***************************************************************************)
seedsTaint(node) ==
    /\ isCallExpression(node)
    /\ isMemberExpression(node.callee)
    /\ getMemberExpressionString(node.callee) \in Range(taintSourcesCatalog)

C29_TaintOnlySeededByCatalogCall ==
    [][ ( /\ taintedVariables = <<>>
          /\ ~(VisitStep("CallExpression") /\ seedsTaint(Head(pending).node)) )
        => /\ taintedVariables' = <<>>
           /\ (pc = "traverse" /\ pending # <<>> /\ pending' = Tail(pending))
                 => /\ analysis'.dangerousPatterns = <<>>
                    /\ \A k \in 1..Len(analysis'.apiEndpoints) :
                          analysis'.apiEndpoints[k].riskLevel # "HIGH" ]_vars

\* `const q = location.search; fetch("/search?q=" + q);` was analysed and
\* nothing is tainted
C29_Witness ==
    /\ pc = "traverse"
    /\ pending = <<>>
    /\ Len(content.program) = 2
    /\ content.program[1] =
          VariableDeclarator(Identifier("q"),
              MemberExpression(Identifier("location"), "search"))
    /\ taintedVariables = <<>>
    /\ Len(analysis.apiEndpoints) = 1
    /\ analysis.dangerousPatterns = <<>>

\* ---------------------------------------------------------------------
\* The browser server of index.ts: MCPBrowserServer, its session map, the
\* tools that use a session, the network log and the SIGINT clean-up.
\* Tool handlers are async: a handler gives way to other handlers at an
\* await, so the handlers that test the map before an await and write it
\* after are split at that await.
\* ---------------------------------------------------------------------

MaxLaunches == 2        \* browsers launched in one behaviour
MaxContexts == 3        \* browser contexts created in one behaviour
MaxLogStreams == 2      \* log files opened in one behaviour
MaxEvents == 2          \* page events delivered to one log file handle
MaxInFlight == 2        \* handlers suspended at an await at one time

\* JavaScript's undefined, where an object or a handle is expected, and
\* where a string is expected
undefined == [undefined |-> TRUE]
undefinedString == "undefined"

SessionIds == {"default", "s2"}
BrowserTypes == {"chromium"}
ViewportArgs == {undefined}
\* the file named by the first, second, ... call of the logging tool
LogPaths == << "a.log", "b.log", "c.log" >>
Orientations == {"portrait", "landscape"}

\* the tools whose handler reads the session and never writes the map
SessionTools ==
    {"browser_click", "browser_analyze_javascript_api_endpoints"}
UnknownTools == {"browser_reload"}

\* the object literal of mobileEmulate (three of its six entries)
devices ==
    ("iPhone 12" :>
        [width |-> 390, height |-> 844,
         userAgent |-> "Mozilla/5.0 (iPhone; CPU iPhone OS 14_6 like Mac OS X)"])
    @@ ("iPad" :>
        [width |-> 768, height |-> 1024,
         userAgent |-> "Mozilla/5.0 (iPad; CPU OS 14_6 like Mac OS X)"])
    @@ ("Pixel 5" :>
        [width |-> 393, height |-> 851,
         userAgent |-> "Mozilla/5.0 (Linux; Android 11; Pixel 5)"])

\* property names every object literal inherits from Object.prototype
ObjectPrototypeKeys ==
    {"constructor", "toString", "valueOf", "hasOwnProperty",
     "isPrototypeOf", "propertyIsEnumerable", "toLocaleString", "__proto__"}

\* an inherited member is a function or an object: truthy, and it has no
\* width, height or userAgent property
inheritedMember == [inherited |-> TRUE]

\* a viewport object whose width and height are both undefined
undefinedSize == [undefinedWidth |-> TRUE, undefinedHeight |-> TRUE]

\* devices[device]: own properties first, then the prototype chain
deviceLookup(device) ==
    IF device \in DOMAIN devices THEN devices[device]
    ELSE IF device \in ObjectPrototypeKeys THEN inheritedMember
    ELSE undefined

DeviceArgs == {"iPad", "Nokia 3310", "constructor"}

\* the viewport mobileEmulate computes from the device and the orientation
emulatedViewport(deviceConfig, orientation) ==
    IF "width" \notin DOMAIN deviceConfig THEN undefinedSize
    ELSE IF orientation = "landscape"
    THEN [width |-> deviceConfig.height, height |-> deviceConfig.width]
    ELSE [width |-> deviceConfig.width, height |-> deviceConfig.height]

validViewport(viewport) == "width" \in DOMAIN viewport

\* deviceConfig.userAgent
userAgentOf(deviceConfig) ==
    IF "userAgent" \in DOMAIN deviceConfig THEN deviceConfig.userAgent
    ELSE undefinedString

\* Map.prototype.set and Map.prototype.delete
mapSet(map, key, value) == (key :> value) @@ map
mapDelete_keepsEntry(map, key) == map
mapDelete(map, key) == [k \in DOMAIN map \ {key} |-> map[k]]

\* request.params of a tools/call request
toolRequest(name, sessionId) == [name |-> name, sessionId |-> sessionId]

\* request.params of a browser_mobile_emulate request
emulateRequest(sessionId, device, orientation) ==
    [name |-> "browser_mobile_emulate", sessionId |-> sessionId,
     device |-> device, orientation |-> orientation]

errorResult_withoutTool(message, request) ==
    [isError |-> TRUE, error |-> message, tool |-> undefinedString,
     request |-> request]

\* the catch of the CallToolRequestSchema handler
errorResult(message, request) ==
    [isError |-> TRUE, error |-> message, tool |-> request.name,
     request |-> request]

\* the result of closeSession
closeResult(request, keepBrowserOpen) ==
    [isError |-> FALSE, action |-> "close_session",
     sessionId |-> request.sessionId, browserClosed |-> ~keepBrowserOpen,
     request |-> request]

\* the result a handler returns
successResult(action, request) ==
    [isError |-> FALSE, action |-> action, sessionId |-> request.sessionId,
     request |-> request]

sessionNotFound(sessionId) == "Session " \o sessionId \o " not found"

\* the page of a session can be driven while it, its context and its
\* browser are open
pageUsable(session) ==
    /\ session.page.open
    /\ session.context.open
    /\ browsers[session.browser].open

\* browser.newContext(...) followed by context.newPage(): the nth pair
newContextAndPage(n, viewport, userAgent) ==
    [context |-> [id |-> n, viewport |-> viewport, userAgent |-> userAgent,
                  open |-> TRUE],
     page |-> [id |-> n, open |-> TRUE, listeners |-> << >>]]

InitSessions ==
    /\ AnalyzerIdle
    /\ ServerIdle
    /\ AcornIdle
    /\ RunsIdle
    /\ SessionsIdle

\* the server is up and the transport has taken the previous result
ready == running /\ response = NoResponse

\* the transport writes the result of a handler to the client
Deliver ==
    /\ response # NoResponse
    /\ response' = NoResponse
    /\ UNCHANGED << sessions, browsers, created, logStreams, inflight,
                    running >>
    /\ UNCHANGED << analyzerVars, serverVars, acornVars, runVars >>

\* navigate on an id the map holds: getOrCreateSession returns the entry
NavigateExisting(sessionId, ok) ==
    /\ ready
    /\ sessionId \in DOMAIN sessions
    /\ response' =
          IF ok /\ pageUsable(sessions[sessionId])
          THEN successResult("navigate",
                             toolRequest("browser_navigate", sessionId))
          ELSE errorResult("page.goto failed",
                           toolRequest("browser_navigate", sessionId))
    /\ UNCHANGED << sessions, browsers, created, logStreams, inflight,
                    running >>
    /\ UNCHANGED << analyzerVars, serverVars, acornVars, runVars >>

\* getOrCreateSession on an id the map does not hold: the launch is
\* started and awaited
NavigateLaunch(sessionId, browserType, viewport) ==
    /\ ready
    /\ sessionId \notin DOMAIN sessions
    /\ Len(browsers) < MaxLaunches
    /\ Cardinality(inflight) < MaxInFlight
    /\ browsers' =
          Append(browsers, [browserType |-> browserType, open |-> TRUE])
    /\ inflight' =
          inflight \cup
             {[tool |-> "browser_navigate", sessionId |-> sessionId,
               browser |-> Len(browsers) + 1,
               browserType |-> browserType, viewport |-> viewport]}
    /\ UNCHANGED << sessions, created, logStreams, response, running >>
    /\ UNCHANGED << analyzerVars, serverVars, acornVars, runVars >>

\* the launch rejects: the error reaches the catch of the dispatcher
NavigateLaunchFails(sessionId) ==
    /\ ready
    /\ sessionId \notin DOMAIN sessions
    /\ response' =
          errorResult("browser launch failed",
                      toolRequest("browser_navigate", sessionId))
    /\ UNCHANGED << sessions, browsers, created, logStreams, inflight,
                    running >>
    /\ UNCHANGED << analyzerVars, serverVars, acornVars, runVars >>

\* getOrCreateSession after the launch: newContext, newPage, sessions.set,
\* and then the page.goto of navigate
NavigateCreate(call, ok) ==
    /\ ready
    /\ call \in inflight
    /\ call.tool = "browser_navigate"
    /\ LET pair ==
               newContextAndPage(
                   created + 1,
                   IF call.viewport = undefined
                   THEN [width |-> 1280, height |-> 720]
                   ELSE call.viewport,
                   undefinedString)
           session ==
               [id |-> call.sessionId, browser |-> call.browser,
                context |-> pair.context, page |-> pair.page,
                browserType |-> call.browserType,
                networkLogPath |-> undefinedString,
                networkLogStream |-> undefined]
       IN /\ sessions' = mapSet(sessions, call.sessionId, session)
          /\ response' =
                IF ok
                THEN successResult(
                         "navigate",
                         toolRequest("browser_navigate", call.sessionId))
                ELSE errorResult(
                         "page.goto failed",
                         toolRequest("browser_navigate", call.sessionId))
    /\ created' = created + 1
    /\ inflight' = inflight \ {call}
    /\ UNCHANGED << browsers, logStreams, running >>
    /\ UNCHANGED << analyzerVars, serverVars, acornVars, runVars >>

\* click, screenshot, ...: sessions.get, the not-found throw, a page operation
CallTool(tool, sessionId, ok) ==
    /\ ready
    /\ tool \in SessionTools
    /\ response' =
          IF sessionId \notin DOMAIN sessions
          THEN errorResult(sessionNotFound(sessionId),
                           toolRequest(tool, sessionId))
          ELSE IF ok /\ pageUsable(sessions[sessionId])
          THEN successResult(tool, toolRequest(tool, sessionId))
          ELSE errorResult("page operation failed",
                           toolRequest(tool, sessionId))
    /\ UNCHANGED << sessions, browsers, created, logStreams, inflight,
                    running >>
    /\ UNCHANGED << analyzerVars, serverVars, acornVars, runVars >>

\* the default branch of the dispatcher
UnknownTool(name, sessionId) ==
    /\ ready
    /\ name \in UnknownTools
    /\ response' =
          errorResult("Unknown tool: " \o name, toolRequest(name, sessionId))
    /\ UNCHANGED << sessions, browsers, created, logStreams, inflight,
                    running >>
    /\ UNCHANGED << analyzerVars, serverVars, acornVars, runVars >>

\* mobileEmulate on an id the map does not hold
EmulateMissing(sessionId) ==
    /\ ready
    /\ sessionId \notin DOMAIN sessions
    /\ response' =
          errorResult(sessionNotFound(sessionId),
                      toolRequest("browser_mobile_emulate", sessionId))
    /\ UNCHANGED << sessions, browsers, created, logStreams, inflight,
                    running >>
    /\ UNCHANGED << analyzerVars, serverVars, acornVars, runVars >>

\* mobileEmulate.  newContext rejects on a closed browser; what it does
\* with a viewport whose width and height are undefined is Playwright's
\* business, so both outcomes are kept (accepts).
MobileEmulate(sessionId, device, orientation, accepts) ==
    /\ ready
    /\ sessionId \in DOMAIN sessions
    /\ IF deviceLookup(device) = undefined
       THEN /\ response' =
                  errorResult("Unknown device: " \o device,
                              emulateRequest(sessionId, device, orientation))
            /\ UNCHANGED << sessions, created >>
       ELSE LET session == sessions[sessionId]
                deviceConfig == deviceLookup(device)
                viewport == emulatedViewport(deviceConfig, orientation)
                pair == newContextAndPage(created + 1, viewport,
                                          userAgentOf(deviceConfig))
                accepted ==
                    /\ browsers[session.browser].open
                    /\ validViewport(viewport) \/ accepts
            IN /\ created < MaxContexts
               /\ IF accepted
                  THEN /\ sessions' =
                             [sessions EXCEPT
                                 ![sessionId].context = pair.context,
                                 ![sessionId].page = pair.page]
                       /\ created' = created + 1
                       /\ response' =
                             successResult(
                                 "mobile_emulate",
                                 emulateRequest(sessionId, device,
                                                orientation))
                  ELSE /\ sessions' =
                             [sessions EXCEPT
                                 ![sessionId].context.open = FALSE,
                                 ![sessionId].page.open = FALSE]
                       /\ created' = created
                       /\ response' =
                             errorResult(
                                 "browser.newContext failed",
                                 emulateRequest(sessionId, device,
                                                orientation))
    /\ UNCHANGED << browsers, logStreams, inflight, running >>
    /\ UNCHANGED << analyzerVars, serverVars, acornVars, runVars >>

\* closeSession on an id the map does not hold
CloseMissing(sessionId) ==
    /\ ready
    /\ sessionId \notin DOMAIN sessions
    /\ response' =
          errorResult(sessionNotFound(sessionId),
                      toolRequest("browser_close_session", sessionId))
    /\ UNCHANGED << sessions, browsers, created, logStreams, inflight,
                    running >>
    /\ UNCHANGED << analyzerVars, serverVars, acornVars, runVars >>

\* closeSession with keepBrowserOpen true (the default): no await before
\* sessions.delete
CloseKeepingBrowser(sessionId) ==
    /\ ready
    /\ sessionId \in DOMAIN sessions
    /\ sessions' = mapDelete(sessions, sessionId)
    /\ response' =
          closeResult(toolRequest("browser_close_session", sessionId), TRUE)
    /\ UNCHANGED << browsers, created, logStreams, inflight, running >>
    /\ UNCHANGED << analyzerVars, serverVars, acornVars, runVars >>

\* closeSession with keepBrowserOpen false: browser.close() is awaited
CloseBrowser(sessionId) ==
    /\ ready
    /\ sessionId \in DOMAIN sessions
    /\ Cardinality(inflight) < MaxInFlight
    /\ browsers' =
          [browsers EXCEPT ![sessions[sessionId].browser].open = FALSE]
    /\ inflight' =
          inflight \cup
             {[tool |-> "browser_close_session", sessionId |-> sessionId,
               browser |-> sessions[sessionId].browser]}
    /\ UNCHANGED << sessions, created, logStreams, response, running >>
    /\ UNCHANGED << analyzerVars, serverVars, acornVars, runVars >>

\* closeSession after browser.close(): sessions.delete and the result
CloseDelete(call) ==
    /\ ready
    /\ call \in inflight
    /\ call.tool = "browser_close_session"
    /\ sessions' = mapDelete(sessions, call.sessionId)
    /\ response' =
          closeResult(toolRequest("browser_close_session", call.sessionId),
                      FALSE)
    /\ inflight' = inflight \ {call}
    /\ UNCHANGED << browsers, created, logStreams, running >>
    /\ UNCHANGED << analyzerVars, serverVars, acornVars, runVars >>

\* logNetworkRequests on an id the map does not hold
LogMissing(sessionId) ==
    /\ ready
    /\ sessionId \notin DOMAIN sessions
    /\ response' =
          errorResult(sessionNotFound(sessionId),
                      toolRequest("browser_log_network_requests", sessionId))
    /\ UNCHANGED << sessions, browsers, created, logStreams, inflight,
                    running >>
    /\ UNCHANGED << analyzerVars, serverVars, acornVars, runVars >>

\* logNetworkRequests: the test of session.networkLogStream, fs.open,
\* the header (page.evaluate rejects on a closed page), the listeners
LogNetworkRequests(sessionId, filePath) ==
    /\ ready
    /\ sessionId \in DOMAIN sessions
    /\ LET session == sessions[sessionId]
           ended ==
               IF session.networkLogStream # undefined
               THEN [logStreams EXCEPT
                        ![session.networkLogStream.handle].open = FALSE]
               ELSE logStreams
           logStream == Len(logStreams) + 1
       IN /\ Len(logStreams) < MaxLogStreams
          /\ logStreams' =
                Append(ended, [path |-> filePath, sessionId |-> sessionId,
                               open |-> TRUE, entries |-> 0])
          /\ IF pageUsable(session)
             THEN /\ sessions' =
                        [sessions EXCEPT
                            ![sessionId].networkLogPath = filePath,
                            ![sessionId].page.listeners =
                                Append(@, logStream)]
                  /\ response' =
                        successResult(
                            "log_network_requests",
                            toolRequest("browser_log_network_requests",
                                        sessionId))
             ELSE /\ sessions' =
                        [sessions EXCEPT
                            ![sessionId].networkLogPath = filePath]
                  /\ response' =
                        errorResult(
                            "page.evaluate failed",
                            toolRequest("browser_log_network_requests",
                                        sessionId))
    /\ UNCHANGED << browsers, created, inflight, running >>
    /\ UNCHANGED << analyzerVars, serverVars, acornVars, runVars >>

\* the page of a session emits request, response or requestfailed: every
\* listener that logNetworkRequests registered on the page writes to its
\* own file handle
PageEvent(sessionId) ==
    /\ ready
    /\ sessionId \in DOMAIN sessions
    /\ LET page == sessions[sessionId].page
       IN /\ pageUsable(sessions[sessionId])
          /\ page.listeners # << >>
          /\ \A h \in Range(page.listeners) : logStreams[h].entries < MaxEvents
          /\ logStreams' =
                [h \in DOMAIN logStreams |->
                    IF h \in Range(page.listeners) /\ logStreams[h].open
                    THEN [logStreams[h] EXCEPT !.entries = @ + 1]
                    ELSE logStreams[h]]
    /\ UNCHANGED << sessions, browsers, created, inflight, response,
                    running >>
    /\ UNCHANGED << analyzerVars, serverVars, acornVars, runVars >>

\* the SIGINT handler: cleanup() ends the streams the sessions hold and
\* clears the map, then the server is closed
Cleanup ==
    /\ ready
    /\ logStreams' =
          [h \in DOMAIN logStreams |->
              IF \E id \in DOMAIN sessions :
                    sessions[id].networkLogStream = [handle |-> h]
              THEN [logStreams[h] EXCEPT !.open = FALSE]
              ELSE logStreams[h]]
    /\ sessions' = << >>
    /\ inflight' = {}
    /\ running' = FALSE
    /\ UNCHANGED << browsers, created, response >>
    /\ UNCHANGED << analyzerVars, serverVars, acornVars, runVars >>

NextSessions ==
    \/ \E id \in SessionIds, ok \in BOOLEAN : NavigateExisting(id, ok)
    \/ \E id \in SessionIds, b \in BrowserTypes, v \in ViewportArgs :
          NavigateLaunch(id, b, v)
    \/ \E id \in SessionIds : NavigateLaunchFails(id)
    \/ \E call \in inflight, ok \in BOOLEAN : NavigateCreate(call, ok)
    \/ \E t \in SessionTools, id \in SessionIds, ok \in BOOLEAN :
          CallTool(t, id, ok)
    \/ \E n \in UnknownTools, id \in SessionIds : UnknownTool(n, id)
    \/ \E id \in SessionIds : EmulateMissing(id)
    \/ \E id \in SessionIds, d \in DeviceArgs, o \in Orientations,
          a \in BOOLEAN : MobileEmulate(id, d, o, a)
    \/ \E id \in SessionIds : CloseMissing(id)
    \/ \E id \in SessionIds : CloseKeepingBrowser(id)
    \/ \E id \in SessionIds : CloseBrowser(id)
    \/ \E call \in inflight : CloseDelete(call)
    \/ \E id \in SessionIds : LogMissing(id)
    \/ Deliver
    \/ Cleanup

SpecSessions == InitSessions /\ [][NextSessions]_vars

\* the logging tool at work on the sessions that navigate created
NextNetworkLog ==
    \/ \E id \in SessionIds, b \in BrowserTypes, v \in ViewportArgs :
          NavigateLaunch(id, b, v)
    \/ \E call \in inflight, ok \in BOOLEAN : NavigateCreate(call, ok)
    \/ \E id \in SessionIds : LogMissing(id)
    \/ \E id \in SessionIds :
          LogNetworkRequests(id, LogPaths[Len(logStreams) + 1])
    \/ \E id \in SessionIds : PageEvent(id)
    \/ \E id \in SessionIds : CloseKeepingBrowser(id)
    \/ Deliver
    \/ Cleanup

SpecNetworkLog == InitSessions /\ [][NextNetworkLog]_vars

\* ---------------------------------------------------------------------
\* Properties of the browser server
\* ---------------------------------------------------------------------

\* a handler hands a result to the transport in this step
returns == response = NoResponse /\ response' # NoResponse

\* this step is the result of a successful browser_close_session on id
closesSession(id) ==
    /\ returns
    /\ ~response'.isError
    /\ response'.action = "close_session"
    /\ response'.sessionId = id

\* C21: sessions persist until explicitly closed: every step that is neither
\* the completion of browser_close_session for an id nor the server
\* shutdown keeps that id in the session map, bound to the same browser.
C21_SessionsPersist ==
    [][\A id \in DOMAIN sessions :
          (running' /\ ~closesSession(id)) =>
              /\ id \in DOMAIN sessions'
              /\ sessions'[id].browser = sessions[id].browser]_vars

\* a handler that ran from its start to its result in this step, without
\* having been suspended, answers a request of this name for this id
answers(name, id) ==
    /\ returns
    /\ inflight' = inflight
    /\ response'.request = toolRequest(name, id)

\* the tools that need an existing session
ExistingSessionTools ==
    SessionTools \cup {"browser_mobile_emulate", "browser_close_session",
                       "browser_log_network_requests"}

\* C22: browser_close_session on an existing session removes the id from the
\* session map, and a browser is closed only by a close with keepBrowserOpen
\* false (which does close the browser of the session it found); while the id
\* is absent every tool call on it other than browser_navigate fails with the
\* session-not-found error, and browser_navigate on it does not succeed
\* without launching a new browser.
C22_CloseSessionSemantics ==
    [][\A id \in SessionIds :
          /\ closesSession(id) => id \notin DOMAIN sessions'
          /\ (closesSession(id) /\ ~response'.browserClosed) =>
                browsers' = browsers
          /\ \A b \in DOMAIN browsers :
                (browsers[b].open /\ ~browsers'[b].open) =>
                    \E call \in inflight' \ inflight :
                        /\ call.tool = "browser_close_session"
                        /\ call.browser = b
          /\ \A call \in inflight \ inflight' :
                (call.tool = "browser_close_session" /\ closesSession(id)) =>
                    /\ response'.browserClosed
                    /\ ~browsers'[call.browser].open
          /\ \A name \in ExistingSessionTools :
                (answers(name, id) /\ id \notin DOMAIN sessions) =>
                    /\ response'.isError
                    /\ response'.error = sessionNotFound(id)
          /\ (answers("browser_navigate", id) /\ id \notin DOMAIN sessions) =>
                response'.isError
          /\ \A call \in inflight' \ inflight :
                call.tool = "browser_navigate" =>
                    /\ call.sessionId \notin DOMAIN sessions
                    /\ call.browser \notin DOMAIN browsers
                    /\ browsers'[call.browser].open]_vars

\* a session was closed together with its browser
C22_Witness ==
    /\ response # NoResponse
    /\ ~response.isError
    /\ response.action = "close_session"
    /\ response.browserClosed
    /\ response.sessionId \notin DOMAIN sessions
    /\ \E b \in DOMAIN browsers : ~browsers[b].open

\* C23: a call of a tool other than browser_navigate that names a session id
\* with no entry in the session map, and a call of an unknown tool name,
\* returns an error result (isError true, with the error message and the tool
\* name) and leaves the session map as it was.
C23_MissingSessionOrUnknownToolIsError ==
    [][\A id \in SessionIds :
          /\ \A name \in ExistingSessionTools :
                (answers(name, id) /\ id \notin DOMAIN sessions) =>
                    /\ response' =
                          [isError |-> TRUE, error |-> sessionNotFound(id),
                           tool |-> name, request |-> toolRequest(name, id)]
                    /\ sessions' = sessions
          /\ \A name \in UnknownTools :
                answers(name, id) =>
                    /\ response' =
                          [isError |-> TRUE,
                           error |-> "Unknown tool: " \o name,
                           tool |-> name, request |-> toolRequest(name, id)]
                    /\ sessions' = sessions]_vars

\* a click on an id that has no session is answered while another id has one
C23_Witness ==
    /\ response # NoResponse
    /\ response.request = toolRequest("browser_click", "s2")
    /\ response.isError
    /\ response.error = sessionNotFound("s2")
    /\ DOMAIN sessions = {"default"}

\* C28: at most one browser is launched per live session id: of the
\* browser_navigate calls suspended in getOrCreateSession, no two for the
\* same session id hold different browsers, and none holds a browser for an
\* id that already has a session (which it would then overwrite, leaving a
\* launched browser that the session map does not reference).
C28_OneLaunchPerSessionId ==
    \A c \in inflight :
        c.tool = "browser_navigate" =>
            /\ c.sessionId \notin DOMAIN sessions
            /\ \A d \in inflight :
                  (d.tool = "browser_navigate" /\ d.sessionId = c.sessionId)
                      => d.browser = c.browser

\* the device names the tool supports
SupportedDevices == DOMAIN devices

\* the size of a supported device, turned for landscape
deviceViewport(device, orientation) ==
    IF orientation = "landscape"
    THEN [width |-> devices[device].height, height |-> devices[device].width]
    ELSE [width |-> devices[device].width, height |-> devices[device].height]

\* C30: browser_mobile_emulate on an existing session with a device name
\* outside the supported list fails with the Unknown device error and leaves
\* the session as it was; with a supported device, when it succeeds, the
\* session keeps its id and browser and gets a newly created, open context
\* and page whose viewport is the device's size, turned for landscape.
C30_MobileEmulate ==
    [][\A id \in DOMAIN sessions :
          (/\ returns
           /\ response'.request.name = "browser_mobile_emulate"
           /\ response'.request.sessionId = id) =>
              LET device == response'.request.device
                  orientation == response'.request.orientation
              IN IF device \notin SupportedDevices
                 THEN /\ response'.isError
                      /\ response'.error = "Unknown device: " \o device
                      /\ sessions' = sessions
                 ELSE ~response'.isError =>
                      /\ id \in DOMAIN sessions'
                      /\ sessions'[id].id = id
                      /\ sessions'[id].browser = sessions[id].browser
                      /\ sessions'[id].context.id > created
                      /\ sessions'[id].page.id > created
                      /\ sessions'[id].context.open
                      /\ sessions'[id].page.open
                      /\ sessions'[id].context.viewport =
                            deviceViewport(device, orientation)]_vars

\* the file handle that the latest browser_log_network_requests on id opened
latestLogOf(id) ==
    CHOOSE h \in DOMAIN logStreams :
        /\ logStreams[h].sessionId = id
        /\ \A g \in DOMAIN logStreams :
              logStreams[g].sessionId = id => g <= h

\* C27: once browser_log_network_requests was invoked again on a session,
\* request, response and failed-request events are written only to the file
\* named last, never to an earlier one; and the server clean-up closes the
\* log of every session that has one.
C27_LogGoesToNewestFileOnly ==
    [][/\ \A h \in DOMAIN logStreams :
             (h \in DOMAIN logStreams'
                /\ logStreams'[h].entries > logStreams[h].entries) =>
                 h = latestLogOf(logStreams[h].sessionId)
       /\ (running /\ ~running') =>
             \A id \in DOMAIN sessions :
                 sessions[id].networkLogPath # undefinedString =>
                     ~logStreams'[latestLogOf(id)].open]_vars

====
